---- MODULE Spec2Model ----
(***************************************************************************)
(* Session coordination and lifecycle engine of the bot.                   *)
(*                                                                         *)
(* Processes ("shards") share one Redis store.  Each shard runs a single   *)
(* event loop: a handler runs without interruption up to its next await,   *)
(* so every action below is one such run-to-completion segment, or one     *)
(* command executed by the store.  Commands of one shard reach the store   *)
(* in the order they were issued (one connection per shard); commands of   *)
(* different shards interleave freely.  The registry keys and the user     *)
(* data keys are disjoint, so the commands on the two kinds of key are      *)
(* kept in two queues per shard, each in issue order.                      *)
(*                                                                         *)
(* A Session object is identified by the createSession call that built it. *)
(*                                                                         *)
(* The specifications share the variables:                                 *)
(*   Spec       the cross-shard coordinator (registry, local maps);        *)
(*   SpecTime   sessions of one shard under a wall clock: set-up, timers,  *)
(*              the quota check at the start of a cycle, the end routine;  *)
(*   SpecLive   the same with a short clock and fair scheduling, for what  *)
(*              must eventually happen;                                    *)
(*   SpecCycle  the batch action cycle of a fictional character;           *)
(*   SpecReddit the paged fetch of a real character;                       *)
(*   SpecTimers the timers of one session, cycles that throw included;     *)
(*   SpecEnds   the same left to itself, with fair timers and answers;     *)
(*   SpecRemote, SpecShutdown  ending a session from another shard, and    *)
(*              the shutdown of a shard;                                   *)
(*   SpecSummary, SpecSignal   the profile summary at a session's end and  *)
(*              the buttons that feed it;                                  *)
(*   SpecFetch, SpecSelect     one call of fetchMediaBatch, one selection  *)
(*              from the pool of a real character;                         *)
(*   SpecFailure               cycles whose external calls fail;          *)
(*   SpecStart  the session-start flow with a store that may raise;        *)
(*   SpecPremium               the /premium command beside a session.      *)
(***************************************************************************)
EXTENDS Integers, Sequences, FiniteSets, TLC

\* ---------------------------------------------------------------- bounds
\* Coordinator invocations (createSession / endSession) in one behaviour.
MaxCalls == 2
\* /premium commands in one behaviour.
MaxCommands == 2
\* Items in redditPostsPool when a selection from it starts.
MaxPool == 2
\* Half-minute clock ticks observed from the start of a behaviour, and
\* from the minute before the default quota runs out.
EarlyTicks == 3
LateTicks == 5
\* Pages a subreddit listing has beyond its first.
MaxPages == 2
\* The largest maxPageAttempts a call of fetchMediaBatch is given.
MaxPageAttempts == 3

\* ------------------------------------------------------ program constants
ACTION_INTERVAL_MS == 8000
COMMENTARY_BATCH_SIZE == 3
MAX_FETCH_PAGE == 10
DEFAULT_STARTING_TIME == 20
\* setTimeout(() => this.executeNextActionCycle(client), 1000)
FIRST_CYCLE_DELAY_MS == 1000
\* 60 * 1000 in Math.ceil(elapsedMs / (60 * 1000))
MinuteMs == 60000

\* ------------------------------------------------------------- universes
Shards == {0, 1}
Users == {"u1"}
\* media locators (post.file_url) the tag source can answer with
Urls == {"a", "b", "c"}
\* the subreddits of a real character's plugin (sourceList, in order)
SourceList == <<"r1", "r2">>
\* commentary strings the generative service can answer with
CommentaryStrings == {"hi", ""}
\* a commentary longer than an embed's description may be: EmbedBuilder's
\* setDescription throws on it
TooLong == "<over 4096 characters>"
Calls == 1..MaxCalls
\* JavaScript null, as returned by redisClient.get for a missing key.
Null == "<null>"
\* The clock is observed every half minute: at the first EarlyTicks ticks,
\* then from LateStart on.
TickMs == MinuteMs \div 2
LateStart == (DEFAULT_STARTING_TIME - 1) * MinuteMs
LastInstant == LateStart + LateTicks * TickMs

VARIABLES
    registry,               \* Redis keys user_shard:<userId> -> shard id string
    userData,               \* Redis keys user_data:<userId> -> stored record
    localActiveSessions,    \* per shard: the Map userId -> Session
    redisQ,                 \* per shard: registry commands not yet executed
    userQ,                  \* per shard: user-data commands not yet executed
    calls,                  \* coordinator invocations and where each stands
    sess,                   \* the Session objects built so far
    cyc,                    \* per Session: its executeNextActionCycle frame
    media,                  \* per Session: queues, posted set, message ids
    reddit,                 \* per Session: redditFetchState and the pool
    effects,                \* per Session: what its end routine has issued
    deductions,             \* the updateUserTime calls of end routines
    now,                    \* Date.now(), in ms since the first observation
    batchCall,              \* a call of MediaFetcher.fetchMediaBatch: its locals
    selectCall,             \* a selection from redditPostsPool in one cycle: its locals
    premiumKeys,            \* the store's set of unused premium keys
    commands                \* the /premium commands in execution: their frames

vars == <<registry, userData, localActiveSessions, redisQ, userQ, calls, sess,
          cyc, media, reddit, effects, deductions, now, batchCall, selectCall,
          premiumKeys, commands>>

\* ------------------------------------------------------------ conversions
\* currentShardId.toString()
ShardToString(sh) == IF sh = 0 THEN "0" ELSE "1"
\* parseInt(managingShardIdStr, 10); NaN is modelled as no shard at all.
ParseInt(str) == IF str = "0" THEN {0} ELSE IF str = "1" THEN {1} ELSE {}
\* Math.ceil(a / b) for b > 0
Ceil(a, b) == -((-a) \div b)
\* Math.max(a, b)
Max(a, b) == IF a >= b THEN a ELSE b

\* ------------------------------------------------------------------ Map
MapHas(m, k) == k \in DOMAIN m
MapSet(m, k, v) == [x \in (DOMAIN m) \cup {k} |-> IF x = k THEN v ELSE m[x]]
MapDelete(m, k) == [x \in (DOMAIN m) \ {k} |-> m[x]]
EmptyMap == [x \in {} |-> 0]

\* ------------------------------------------------------------- user data
\* getUserDataInternal answers the defaults when the read fails.
DefaultUserData ==
    [remainingMinutes |-> DEFAULT_STARTING_TIME, isPremium |-> FALSE]
\* updateUserTime: data.remainingMinutes = Math.max(0, remaining - used)
UpdateUserTimeData(data, minutesUsed) ==
    [data EXCEPT !.remainingMinutes = Max(0, @ - minutesUsed)]

\* ------------------------------------------------------- Session object
\* new Session(userId, plugin, durationMinutes, ...): what the constructor
\* sets.  durationMinutes 0 stands for null (no duration).  A timer field
\* holds the delay of the pending timeout, 0 when none is pending; the
\* timeouts of the first cycle and of the backoff after an error are kept
\* in no field of the program, firstCycleTimer and backoffTimer tell
\* whether they are pending.
NewSession(u, sh, ty, dur) ==
    [userId |-> u, shard |-> sh, characterType |-> ty,
     durationMinutes |-> dur, startTime |-> now, isActive |-> TRUE,
     dmChannelId |-> FALSE, endReason |-> "",
     setup |-> "created",
     actionLoopTimerId |-> 0, firstCycleTimer |-> 0, backoffTimer |-> 0,
     sessionEndTimerId |-> 0, sessionEndAt |-> 0, endTimerPc |-> "idle"]

\* post.tags of the post at a locator.  The tag source's API answers with
\* one space-separated string of tags; an array is what
\* _mapRedditPostToFetchedMedia builds and what the code accepts as well
\* wherever it reads the tags for the commentary service.
PostTags(url) ==
    IF url = "a" THEN [isArray |-> TRUE, tags |-> {"a1", "a2"}]
    ELSE IF url = "b" THEN [isArray |-> FALSE, tags |-> {"b1", "b2"}]
    ELSE [isArray |-> FALSE, tags |-> {"c1"}]

\* postedMediaUrls, the two message ids (0 is null), the two queues,
\* lastSentMediaInfo, triggeredTags.
\* lastMessageId remembers the id last handed out by the platform,
\* discarded that the last refill threw its batch away, lastDelivered
\* the item whose media was last sent or edited in and deliveredUrls every
\* locator so delivered since the Session was built; none of the four is
\* a field of the program.
NewMedia ==
    [postedMediaUrls |-> {}, currentMediaMessageId |-> 0,
     currentCommentaryMessageId |-> 0, lastMessageId |-> 0,
     mediaBatchQueue |-> <<>>, commentaryQueue |-> <<>>,
     lastSentMediaInfo |-> Null, triggeredTags |-> {}, discarded |-> FALSE,
     lastDelivered |-> Null, deliveredUrls |-> {}]

\* redditFetchState = {} and redditPostsPool = [] until startTimers fills
\* them.  pending holds the page requests in flight; requests and replies
\* log, for every subreddit, the cursors requested and the answers received.
NewReddit ==
    [state |-> EmptyMap, pool |-> {}, pending |-> {},
     requests |-> [sub \in {SourceList[i] : i \in DOMAIN SourceList} |-> <<>>],
     replies |-> [sub \in {SourceList[i] : i \in DOMAIN SourceList} |-> <<>>]]

\* The frame of executeNextActionCycle: where it stands and its locals.
\* commentaryDelivered is no local of the program: it tells that the edit
\* or the send of the commentary succeeded, as mediaSentOrEdited does for
\* the media.  Both keep, after the cycle, what its deliveries did, until
\* the next cycle starts.
IdleCycle ==
    [pc |-> "idle", replied |-> FALSE, isPremium |-> FALSE, elapsedMs |-> 0,
     remainingTime |-> 0, mediaToSend |-> Null, commentaryToSend |-> Null,
     llm |-> [ok |-> FALSE, commentaries |-> <<>>],
     commentaryDelivered |-> FALSE, mediaSentOrEdited |-> FALSE]

\* What has been asked of a session and what its end routine has issued;
\* overlapped tells that a cycle was started while another was in flight,
\* triggerPressed that the trigger button was pressed, tagsAtEnd what
\* triggeredTags held when the end routine was entered, summaryCalls and
\* summaryTags the calls of generateUserProfileSummary and the tags passed
\* to the last of them.
NoEffects ==
    [invoked |-> 0, summary |-> 0, delReq |-> 0, timerCancel |-> 0,
     summaryStarted |-> 0, stopCommand |-> FALSE, overlapped |-> FALSE,
     triggerPressed |-> FALSE, tagsAtEnd |-> {}, summaryCalls |-> 0,
     summaryTags |-> {}]

\* A command on a shard's connection.  `to` and `id` name the awaiter.
Cmd(cmd, u, val, to, id) ==
    [cmd |-> cmd, user |-> u, val |-> val, to |-> to, id |-> id]

\* SessionManager.deleteSession(userId), up to its await: the local Map
\* entry goes at once, the DEL is queued on the shard's connection.
DeleteSessionLocal(loc, sh, u) ==
    [loc EXCEPT ![sh] = IF MapHas(loc[sh], u) THEN MapDelete(loc[sh], u)
                        ELSE loc[sh]]
\* A deleteSession that sends no DEL, for comparison.
DeleteSessionNoDel(q, sh, u, to, id) == q

DeleteSessionQueue(q, sh, u, to, id) ==
    [q EXCEPT ![sh] = Append(q[sh], Cmd("del", u, Null, to, id))]

\* ------------------------------------------------- Session.endSession
\* A started minute more than the elapsed ones, for comparison.
ElapsedMinutesAndOne(startTime) == ((now - startTime) \div MinuteMs) + 1

\* Math.ceil((Date.now() - this.startTime) / (60 * 1000))
ElapsedMinutes(startTime) == Ceil(now - startTime, MinuteMs)

\* The routine without its guard, for comparison.
EndSessionUnguarded(s) == s \in DOMAIN sess

\* The guard `if (!this.isActive) return` makes every part of the routine
\* a no-op on an ended session.
EndSessionRuns(s) == s \in DOMAIN sess /\ sess[s].isActive

\* A routine that flips the flag whenever it is called, for comparison.
EndSessionSessFlipping(ss, s, reason) ==
    [ss EXCEPT ![s].isActive = ~@, ![s].endReason = reason,
               ![s].actionLoopTimerId = 0, ![s].sessionEndTimerId = 0]

\* isActive = false, clearTimeout of the two stored timers.
EndSessionSess(ss, s, reason) ==
    IF EndSessionRuns(s)
    THEN [ss EXCEPT ![s].isActive = FALSE, ![s].endReason = reason,
                    ![s].actionLoopTimerId = 0,
                    ![s].sessionEndTimerId = 0]
    ELSE ss
EndSessionLocal(loc, s) ==
    IF EndSessionRuns(s)
    THEN DeleteSessionLocal(loc, sess[s].shard, sess[s].userId)
    ELSE loc
\* SessionManager.deleteSession(this.userId), not awaited
EndSessionQueue(q, s) ==
    IF EndSessionRuns(s)
    THEN DeleteSessionQueue(q, sess[s].shard, sess[s].userId, "none", 0)
    ELSE q
\* In program order: the premium read of the summary chain, the read of
\* updateUserTime.
EndSessionUserQueueAt(q, s, n) ==
    IF EndSessionRuns(s)
    THEN LET u == sess[s].userId IN
         [q EXCEPT ![sess[s].shard] = @ \o
             << Cmd("uget", u, DefaultUserData, "summary", s),
                Cmd("uget", u, DefaultUserData, "deduct", n) >>]
    ELSE q
EndSessionUserQueue(q, s) == EndSessionUserQueueAt(q, s, Len(deductions) + 1)
\* UserData.updateUserTime(this.userId, elapsedMinutes), up to its read.
EndSessionDeduct(ded, s) ==
    IF EndSessionRuns(s)
    THEN Append(ded, [sid |-> s, user |-> sess[s].userId,
                      n |-> ElapsedMinutes(sess[s].startTime),
                      at |-> now, start |-> sess[s].startTime,
                      pc |-> "get", data |-> DefaultUserData])
    ELSE ded
\* postedMediaUrls.clear(), both message ids null, both queues emptied,
\* lastSentMediaInfo = null, triggeredTags.clear().
EndSessionMedia(md, s) ==
    IF EndSessionRuns(s)
    THEN [md EXCEPT ![s].postedMediaUrls = {},
                    ![s].currentMediaMessageId = 0,
                    ![s].currentCommentaryMessageId = 0,
                    ![s].mediaBatchQueue = <<>>,
                    ![s].commentaryQueue = <<>>,
                    ![s].lastSentMediaInfo = Null,
                    ![s].triggeredTags = {},
                    ![s].lastDelivered = Null]
    ELSE md
\* redditPostsPool = [], redditFetchState = {}
EndSessionReddit(rd, s) ==
    IF EndSessionRuns(s)
    THEN [rd EXCEPT ![s].pool = {}, ![s].state = EmptyMap]
    ELSE rd
\* What the routine has issued so far.  invoked tells the invocations
\* apart: none, one, more than one.
EndSessionEffects(ef, s) ==
    IF EndSessionRuns(s)
    THEN [ef EXCEPT ![s].invoked = IF @ = 0 THEN 1 ELSE 2,
                    ![s].tagsAtEnd = media[s].triggeredTags,
                    ![s].summary = @ + 1,
                    ![s].delReq = @ + 1, ![s].timerCancel = @ + 1]
    ELSE [ef EXCEPT ![s].invoked = IF @ = 0 THEN 1 ELSE 2]

\* this.endSession(reason) on Session s, as a part of the calling step.
EndSession(s, reason, ss, loc) ==
    /\ sess' = EndSessionSess(ss, s, reason)
    /\ localActiveSessions' = EndSessionLocal(loc, s)
    /\ redisQ' = EndSessionQueue(redisQ, s)
    /\ userQ' = EndSessionUserQueue(userQ, s)
    /\ effects' = EndSessionEffects(effects, s)
    /\ deductions' = EndSessionDeduct(deductions, s)
    /\ media' = EndSessionMedia(media, s)
    /\ reddit' = EndSessionReddit(reddit, s)

\* session.endSession(reason) inside a loop over Sessions: st carries
\* what the calls before it have left.
EndSessionIn(st, s, reason) ==
    [sess |-> EndSessionSess(st.sess, s, reason),
     loc |-> EndSessionLocal(st.loc, s),
     redisQ |-> EndSessionQueue(st.redisQ, s),
     userQ |-> EndSessionUserQueueAt(st.userQ, s, Len(st.deductions) + 1),
     effects |-> EndSessionEffects(st.effects, s),
     deductions |-> EndSessionDeduct(st.deductions, s),
     media |-> EndSessionMedia(st.media, s),
     reddit |-> EndSessionReddit(st.reddit, s)]

\* A loop that steps over the entry that follows a removed one, as a loop
\* by index over a shrinking list does, for comparison.
RECURSIVE ForEachSkipping(_, _, _)
ForEachSkipping(keys, sh, st) ==
    IF keys = <<>> THEN st
    ELSE LET next == IF MapHas(st.loc[sh], Head(keys))
                     THEN EndSessionIn(st, st.loc[sh][Head(keys)],
                                       "Shard Shutdown")
                     ELSE st IN
         IF Len(keys) = 1 THEN next
         ELSE ForEachSkipping(Tail(Tail(keys)), sh, next)

\* localActiveSessions.forEach((session, userId) =>
\*     session.endSession('Shard Shutdown')) on shard sh.  keys is the
\* Map's order of insertion when the loop starts; Map.prototype.forEach
\* visits an entry only if it is still in the Map when its turn comes.
RECURSIVE ForEachEndSession(_, _, _)
ForEachEndSession(keys, sh, st) ==
    IF keys = <<>> THEN st
    ELSE IF MapHas(st.loc[sh], Head(keys))
         THEN ForEachEndSession(Tail(keys), sh,
                  EndSessionIn(st, st.loc[sh][Head(keys)], "Shard Shutdown"))
         ELSE ForEachEndSession(Tail(keys), sh, st)

\* The orders in which a Map can hold its keys.
KeyOrders(m) ==
    {keys \in [1..Cardinality(DOMAIN m) -> DOMAIN m] :
        \A i, j \in DOMAIN keys : i # j => keys[i] # keys[j]}

\* SessionManager.endAllLocalSessions() on shard sh (SIGINT, SIGTERM or the
\* function of endAllSessionsGlobally): the loop, then
\* localActiveSessions.clear().  It has no await before its end.
EndAllLocalSessionsLoop(sh, keys) ==
    ForEachEndSession(keys, sh,
        [sess |-> sess, loc |-> localActiveSessions,
         redisQ |-> redisQ, userQ |-> userQ,
         effects |-> effects, deductions |-> deductions,
         media |-> media, reddit |-> reddit])
EndAllLocalSessions(sh) ==
    /\ \E keys \in KeyOrders(localActiveSessions[sh]) :
        LET st == EndAllLocalSessionsLoop(sh, keys) IN
        /\ sess' = st.sess
        /\ localActiveSessions' = [st.loc EXCEPT ![sh] = EmptyMap]
        /\ redisQ' = st.redisQ
        /\ userQ' = st.userQ
        /\ effects' = st.effects
        /\ deductions' = st.deductions
        /\ media' = st.media
        /\ reddit' = st.reddit
    /\ UNCHANGED <<registry, userData, calls, cyc, now, batchCall, selectCall, premiumKeys,
                   commands>>

\* What a connection's queue holds once its process has exited: the n
\* oldest commands, which were written to the socket before the exit and
\* which the store will execute; no one awaits their answers.  Whether a
\* command that was issued in the turn of the exit is written at all is
\* the client library's matter, so n is any length.
SentBeforeExit(q, n) == [i \in 1..n |-> [q[i] EXCEPT !.to = "exited"]]

\* The process of shard sh runs, as far as Sessions tell.
ProcessRuns(sh) ==
    \E s \in DOMAIN sess : sess[s].shard = sh /\ calls[s].ret = "session"

\* process.once('SIGINT' or 'SIGTERM', async () => {
\*     await SessionManager.endAllLocalSessions(); process.exit(0); })
\* on shard sh.  endAllLocalSessions has no await, so the handler goes on
\* to process.exit(0) before any answer or timer is handled: the commands
\* of the end routines have been issued and none has answered.  After the
\* exit nothing of the process runs: its Sessions are held by no code.
SignalShutdown(sh) ==
    /\ ProcessRuns(sh)
    /\ \E keys \in KeyOrders(localActiveSessions[sh]) :
        LET st == EndAllLocalSessionsLoop(sh, keys) IN
        /\ sess' = st.sess
        /\ localActiveSessions' = [st.loc EXCEPT ![sh] = EmptyMap]
        /\ \E n \in 0..Len(st.redisQ[sh]) :
              redisQ' = [st.redisQ EXCEPT ![sh] = SentBeforeExit(@, n)]
        /\ \E n \in 0..Len(st.userQ[sh]) :
              userQ' = [st.userQ EXCEPT ![sh] = SentBeforeExit(@, n)]
        /\ effects' = st.effects
        /\ deductions' = st.deductions
        /\ media' = st.media
        /\ reddit' = st.reddit
    /\ calls' = [c \in DOMAIN calls |->
                    IF c \in DOMAIN sess /\ sess[c].shard = sh
                    THEN [calls[c] EXCEPT !.ret = "exited"]
                    ELSE calls[c]]
    /\ UNCHANGED <<registry, userData, cyc, now, batchCall, selectCall, premiumKeys, commands>>

\* ------------------------------------------------------------- the store
RedisApply(reg, op) ==
    CASE op.cmd = "set" -> [reg EXCEPT ![op.user] = op.val]
      [] op.cmd = "del" -> [reg EXCEPT ![op.user] = Null]
      [] OTHER -> reg
RedisReply(reg, op) ==
    CASE op.cmd = "get" -> reg[op.user]
      [] op.cmd = "exists" -> IF reg[op.user] # Null THEN "1" ELSE "0"
      [] OTHER -> "OK"

\* The answer reaches the coordinator call that awaits the command.
Deliver(cs, op, reply) ==
    IF op.to = "call"
    THEN [cs EXCEPT ![op.id].res = reply, ![op.id].pc = "replied"]
    ELSE cs

\* The store executes the oldest pending registry command of shard sh.
RedisExec(sh) ==
    /\ redisQ[sh] # <<>>
    /\ LET op == Head(redisQ[sh]) IN
        /\ registry' = RedisApply(registry, op)
        /\ calls' = Deliver(calls, op, RedisReply(registry, op))
    /\ redisQ' = [redisQ EXCEPT ![sh] = Tail(@)]
    /\ UNCHANGED <<userData, localActiveSessions, userQ, sess, cyc, media,
                   reddit, effects, deductions, now, batchCall, selectCall,
                   premiumKeys, commands>>

\* The command is rejected (connection error): no effect on the store.
RedisFail(sh) ==
    /\ redisQ[sh] # <<>>
    /\ calls' = Deliver(calls, Head(redisQ[sh]), "ERR")
    /\ redisQ' = [redisQ EXCEPT ![sh] = Tail(@)]
    /\ UNCHANGED <<registry, userData, localActiveSessions, userQ, sess, cyc,
                   media, reddit, effects, deductions, now, batchCall,
                   selectCall, premiumKeys, commands>>

\* updateUserTime: the read answers with the record, the write ends it.
DeliverDeduct(ded, op, data, ok) ==
    IF op.to = "deduct"
    THEN IF op.cmd = "uget"
         THEN [ded EXCEPT ![op.id].pc = "got", ![op.id].data = data]
         ELSE [ded EXCEPT ![op.id].pc = IF ok THEN "done" ELSE "failed"]
    ELSE ded
\* executeNextActionCycle awaits getUserPremiumStatus, later getUserTime.
DeliverCycle(cy, op, data) ==
    IF op.to = "cycle"
    THEN IF cy[op.id].pc = "premium"
         THEN [cy EXCEPT ![op.id].replied = TRUE,
                         ![op.id].isPremium = data.isPremium]
         ELSE [cy EXCEPT ![op.id].replied = TRUE,
                         ![op.id].remainingTime = data.remainingMinutes]
    ELSE cy
\* the summary chain of endSession goes on only for a premium user; when
\* getLlmProfileSummary has answered, generateUserProfileSummary is called
\* with Array.from(this.triggeredTags) as the Session holds it then.
DeliverSummary(ef, op, data) ==
    IF op.to = "summary" /\ data.isPremium
    THEN [ef EXCEPT ![op.id].summaryStarted = @ + 1]
    ELSE IF op.to = "previous"
    THEN [ef EXCEPT ![op.id].summaryCalls = @ + 1,
                    ![op.id].summaryTags = media[op.id].triggeredTags]
    ELSE ef
\* The connection's queue once its oldest command has answered with data:
\* for a premium user the chain issues UserData.getLlmProfileSummary.
SummaryChain(q, op, data) ==
    IF op.to = "summary" /\ data.isPremium
    THEN Append(Tail(q),
                Cmd("uget", op.user, DefaultUserData, "previous", op.id))
    ELSE Tail(q)

\* The store executes the oldest pending user-data command of shard sh.
\* ----------------------------------------------- the /premium command
\* The frames of commands/premium.js execute(interaction): the user, the
\* shard that runs it, the key presented, the await it stands at, what the
\* store answered (the record read, or whether the key was in the set) and
\* the reply given.
Commands == 1..MaxCommands
Accounts == {"u1", "u2"}
PresentedKeys == {"k1", "k2"}

IdleCommand ==
    [user |-> "u1", shard |-> 0, key |-> "", pc |-> "idle",
     replied |-> FALSE, data |-> DefaultUserData, member |-> FALSE,
     outcome |-> ""]
NoCommands == [c \in Commands |-> IdleCommand]

\* The answer of the store reaches the command that awaits it.
DeliverCommand(cm, op, data, member) ==
    IF op.to = "command"
    THEN [cm EXCEPT ![op.id].replied = TRUE, ![op.id].data = data,
                    ![op.id].member = member]
    ELSE cm

\* `redisClient.sRem(PREMIUM_KEYS_SET_KEY, key)`
PremiumKeysApply(keys, op) ==
    IF op.cmd = "srem" THEN keys \ {op.val} ELSE keys

\* sIsMember, and `removed > 0` of sRem.
PremiumKeysReply(keys, op) ==
    op.cmd \in {"sismember", "srem"} /\ op.val \in keys

UserDataExec(sh) ==
    /\ userQ[sh] # <<>>
    /\ LET op == Head(userQ[sh]) IN
        /\ userData' = IF op.cmd = "uset"
                       THEN [userData EXCEPT ![op.user] = op.val]
                       ELSE userData
        /\ deductions' = DeliverDeduct(deductions, op, userData[op.user], TRUE)
        /\ cyc' = DeliverCycle(cyc, op, userData[op.user])
        /\ effects' = DeliverSummary(effects, op, userData[op.user])
        /\ userQ' = [userQ EXCEPT ![sh] =
                         SummaryChain(@, op, userData[op.user])]
        /\ premiumKeys' = PremiumKeysApply(premiumKeys, op)
        /\ commands' = DeliverCommand(commands, op, userData[op.user],
                                      PremiumKeysReply(premiumKeys, op))
    /\ UNCHANGED <<registry, localActiveSessions, redisQ, calls, sess, media,
                   reddit, now, batchCall, selectCall>>

\* The command is rejected.  getUserDataInternal answers a rejected read
\* with the defaults; saveUserDataInternal logs a rejected write.
UserDataFail(sh) ==
    /\ userQ[sh] # <<>>
    /\ LET op == Head(userQ[sh]) IN
        /\ deductions' = DeliverDeduct(deductions, op, DefaultUserData, FALSE)
        /\ cyc' = DeliverCycle(cyc, op, DefaultUserData)
        /\ effects' = DeliverSummary(effects, op, DefaultUserData)
        /\ userQ' = [userQ EXCEPT ![sh] =
                         SummaryChain(@, op, DefaultUserData)]
        /\ commands' = DeliverCommand(commands, op, DefaultUserData, FALSE)
    /\ UNCHANGED <<registry, userData, localActiveSessions, redisQ, calls,
                   sess, media, reddit, now, batchCall, selectCall,
                   premiumKeys>>

\* updateUserTime after its read: compute, then saveUserDataInternal.
\* It runs in the process of the Session that ended.
UpdateUserTimeGot(i) ==
    /\ i \in DOMAIN deductions
    /\ deductions[i].pc = "got"
    /\ calls[deductions[i].sid].ret # "exited"
    /\ LET d == deductions[i] IN
       /\ userQ' = [userQ EXCEPT ![sess[d.sid].shard] = Append(@,
              Cmd("uset", d.user, UpdateUserTimeData(d.data, d.n),
                  "deduct", i))]
       /\ deductions' = [deductions EXCEPT ![i].pc = "set"]
    /\ UNCHANGED <<registry, userData, localActiveSessions, redisQ, calls,
                   sess, cyc, media, reddit, effects, now, batchCall,
                   selectCall, premiumKeys, commands>>

\* ------------------------------------------- SessionManager.createSession
IdleCall == [op |-> "idle", shard |-> 0, user |-> "u1", pc |-> "idle",
             step |-> "", res |-> "", ret |-> "", type |-> "",
             duration |-> 0, existsRaised |-> FALSE]

\* Invocations are numbered in the order they start.
FreshCall(c) ==
    /\ calls[c].op = "idle"
    /\ \A d \in Calls : d < c => calls[d].op # "idle"

\* createSession(client, userId, plugin, durationMinutes, ...) up to
\* `await redisClient.get(...)`.
CreateSessionCall(c, sh, u, ty, dur) ==
    /\ FreshCall(c)
    /\ calls' = [calls EXCEPT ![c] = [op |-> "create", shard |-> sh,
                    user |-> u, pc |-> "waiting", step |-> "get",
                    res |-> "", ret |-> "", type |-> ty, duration |-> dur,
                    existsRaised |-> FALSE]]
    /\ redisQ' = [redisQ EXCEPT ![sh] = Append(@,
                    Cmd("get", u, Null, "call", c))]
    /\ UNCHANGED <<registry, userData, localActiveSessions, userQ, sess, cyc,
                   media, reddit, effects, deductions, now, batchCall,
                   selectCall, premiumKeys, commands>>

\* A creation that does not look at the owner the GET answered with, for
\* comparison.
CreateSessionIgnoringOwner(c) ==
    /\ calls[c].op = "create" /\ calls[c].pc = "replied"
    /\ calls[c].step = "get"
    /\ LET sh == calls[c].shard
           u == calls[c].user IN
        /\ sess' = MapSet(sess, c,
               NewSession(u, sh, calls[c].type, calls[c].duration))
        /\ cyc' = MapSet(cyc, c, IdleCycle)
        /\ media' = MapSet(media, c, NewMedia)
        /\ reddit' = MapSet(reddit, c, NewReddit)
        /\ effects' = MapSet(effects, c, NoEffects)
        /\ localActiveSessions' =
               [localActiveSessions EXCEPT ![sh] = MapSet(@, u, c)]
        /\ redisQ' = [redisQ EXCEPT ![sh] = Append(@,
               Cmd("set", u, ShardToString(sh), "call", c))]
        /\ calls' = [calls EXCEPT ![c].pc = "waiting", ![c].step = "set"]
        /\ UNCHANGED <<registry, userData, userQ, deductions, now, batchCall, selectCall,
                   premiumKeys, commands>>

\* The GET has answered: refuse, or build the Session and queue the SET.
CreateSessionGotOwner(c) ==
    /\ calls[c].op = "create" /\ calls[c].pc = "replied"
    /\ calls[c].step = "get"
    /\ LET sh == calls[c].shard
           u == calls[c].user IN
       IF calls[c].res = "ERR" THEN
            \* the rejected await leaves createSession by exception
            /\ calls' = [calls EXCEPT ![c].pc = "done", ![c].ret = "throw"]
            /\ UNCHANGED <<registry, userData, localActiveSessions, redisQ, userQ,
                           sess, cyc, media, reddit, effects, deductions, now,
                           batchCall, selectCall, premiumKeys, commands>>
       ELSE IF calls[c].res # Null THEN
            /\ calls' = [calls EXCEPT ![c].pc = "done", ![c].ret = "null"]
            /\ UNCHANGED <<registry, userData, localActiveSessions, redisQ, userQ,
                           sess, cyc, media, reddit, effects, deductions, now,
                           batchCall, selectCall, premiumKeys, commands>>
       ELSE
            /\ sess' = MapSet(sess, c,
                   NewSession(u, sh, calls[c].type, calls[c].duration))
            /\ cyc' = MapSet(cyc, c, IdleCycle)
            /\ media' = MapSet(media, c, NewMedia)
            /\ reddit' = MapSet(reddit, c, NewReddit)
            /\ effects' = MapSet(effects, c, NoEffects)
            /\ localActiveSessions' =
                   [localActiveSessions EXCEPT ![sh] = MapSet(@, u, c)]
            /\ redisQ' = [redisQ EXCEPT ![sh] = Append(@,
                   Cmd("set", u, ShardToString(sh), "call", c))]
            /\ calls' = [calls EXCEPT ![c].pc = "waiting",
                                      ![c].step = "set"]
            /\ UNCHANGED <<registry, userData, userQ, deductions, now, batchCall, selectCall,
                   premiumKeys, commands>>

\* A creation that returns the refusal on a failed SET and rolls nothing
\* back, for comparison.
CreateSessionNoRollback(c) ==
    /\ calls[c].op = "create" /\ calls[c].pc = "replied"
    /\ calls[c].step = "set"
    /\ calls' = [calls EXCEPT ![c].pc = "done",
                    ![c].ret = IF calls[c].res = "ERR" THEN "null"
                               ELSE "session"]
    /\ UNCHANGED <<registry, userData, localActiveSessions, redisQ, userQ,
                   sess, cyc, media, reddit, effects, deductions, now,
                   batchCall, selectCall, premiumKeys, commands>>

\* The SET has answered: return the Session, or roll back.
CreateSessionRegistered(c) ==
    /\ calls[c].op = "create" /\ calls[c].pc = "replied"
    /\ calls[c].step = "set"
    /\ LET sh == calls[c].shard
           u == calls[c].user IN
       IF calls[c].res = "ERR" THEN
            /\ EndSession(c, "Redis Registration Failed", sess,
                   [localActiveSessions EXCEPT ![sh] = MapDelete(@, u)])
            /\ calls' = [calls EXCEPT ![c].pc = "done", ![c].ret = "null"]
            /\ UNCHANGED <<registry, userData, cyc, now, batchCall, selectCall, premiumKeys, commands>>
       ELSE
            /\ calls' = [calls EXCEPT ![c].pc = "done",
                                      ![c].ret = "session"]
            /\ UNCHANGED <<registry, userData, localActiveSessions, redisQ, userQ,
                           sess, cyc, media, reddit, effects, deductions, now,
                           batchCall, selectCall, premiumKeys, commands>>

\* ------------------------------------------- the session-start modal
\* part_002 105-110: the submit handler up to
\* `await SessionManager.hasActiveSessionAnywhere(interaction.user.id)`,
\* which awaits `redisClient.exists(...)`.
SessionStartModal(c, sh, u) ==
    /\ FreshCall(c)
    /\ calls' = [calls EXCEPT ![c] = [op |-> "create", shard |-> sh,
                    user |-> u, pc |-> "waiting", step |-> "exists",
                    res |-> "", ret |-> "", type |-> "fictional",
                    duration |-> 0, existsRaised |-> FALSE]]
    /\ redisQ' = [redisQ EXCEPT ![sh] = Append(@,
                    Cmd("exists", u, Null, "call", c))]
    /\ UNCHANGED <<registry, userData, localActiveSessions, userQ, sess, cyc,
                   media, reddit, effects, deductions, now, batchCall,
                   selectCall, premiumKeys, commands>>

\* hasActiveSessionAnywhere (part_003 86-94): `result === 1`, and false
\* when the EXISTS raised.
HasActiveSessionAnywhere(res) == res = "1"

\* The EXISTS has answered.  A session somewhere: the handler replies and
\* returns.  Otherwise it reads the user's premium flag and quota, which
\* are positive here and change nothing, and calls createSession, which
\* runs up to `await redisClient.get(...)`.  existsRaised is no field of
\* the program: it remembers that the EXISTS raised.
SessionStartGotExists(c) ==
    /\ calls[c].op = "create" /\ calls[c].pc = "replied"
    /\ calls[c].step = "exists"
    /\ IF HasActiveSessionAnywhere(calls[c].res)
       THEN /\ calls' = [calls EXCEPT ![c].pc = "done", ![c].ret = "active"]
            /\ UNCHANGED redisQ
       ELSE /\ calls' = [calls EXCEPT ![c].pc = "waiting", ![c].step = "get",
                            ![c].existsRaised = (calls[c].res = "ERR")]
            /\ redisQ' = [redisQ EXCEPT ![calls[c].shard] = Append(@,
                            Cmd("get", calls[c].user, Null, "call", c))]
    /\ UNCHANGED <<registry, userData, localActiveSessions, userQ, sess, cyc,
                   media, reddit, effects, deductions, now, batchCall,
                   selectCall, premiumKeys, commands>>

\* ---------------------------------------------- SessionManager.endSession
\* endSession(client, userId) up to `await redisClient.get(...)`.
EndSessionCall(c, sh, u) ==
    /\ FreshCall(c)
    /\ calls' = [calls EXCEPT ![c] = [op |-> "end", shard |-> sh,
                    user |-> u, pc |-> "waiting", step |-> "get",
                    res |-> "", ret |-> "", type |-> "", duration |-> 0,
                    existsRaised |-> FALSE]]
    /\ redisQ' = [redisQ EXCEPT ![sh] = Append(@,
                    Cmd("get", u, Null, "call", c))]
    /\ UNCHANGED <<registry, userData, localActiveSessions, userQ, sess, cyc,
                   media, reddit, effects, deductions, now, batchCall,
                   selectCall, premiumKeys, commands>>

\* The GET has answered: no owner, this shard is the owner, or another is.
EndSessionGotOwner(c) ==
    /\ calls[c].op = "end" /\ calls[c].pc = "replied"
    /\ calls[c].step = "get"
    /\ LET sh == calls[c].shard
           u == calls[c].user
           owner == ParseInt(calls[c].res) IN
       IF calls[c].res = "ERR" THEN
            /\ calls' = [calls EXCEPT ![c].pc = "done", ![c].ret = "throw"]
            /\ UNCHANGED <<registry, userData, localActiveSessions, redisQ, userQ,
                           sess, cyc, media, reddit, effects, deductions, now,
                           batchCall, selectCall, premiumKeys, commands>>
       ELSE IF calls[c].res = Null THEN
            /\ calls' = [calls EXCEPT ![c].pc = "done", ![c].ret = "false"]
            /\ UNCHANGED <<registry, userData, localActiveSessions, redisQ, userQ,
                           sess, cyc, media, reddit, effects, deductions, now,
                           batchCall, selectCall, premiumKeys, commands>>
       ELSE IF owner = {sh} THEN
            IF MapHas(localActiveSessions[sh], u) THEN
                \* session.endSession('Requested by Manager'); return true
                /\ EndSession(localActiveSessions[sh][u],
                       "Requested by Manager", sess, localActiveSessions)
                /\ calls' = [calls EXCEPT ![c].pc = "done",
                                          ![c].ret = "true"]
                /\ UNCHANGED <<registry, userData, cyc, now, batchCall, selectCall, premiumKeys, commands>>
            ELSE
                \* discrepancy: await this.deleteSession(userId)
                /\ localActiveSessions' =
                       DeleteSessionLocal(localActiveSessions, sh, u)
                /\ redisQ' = DeleteSessionQueue(redisQ, sh, u, "call", c)
                /\ calls' = [calls EXCEPT ![c].pc = "waiting",
                                          ![c].step = "del"]
                /\ UNCHANGED <<registry, userData, userQ, sess, cyc, media,
                               reddit, effects, deductions, now, batchCall,
                               selectCall, premiumKeys, commands>>
       ELSE
            \* client.shard.broadcastEval(..., {shard: managingShardId})
            /\ calls' = [calls EXCEPT ![c].pc = "ipc", ![c].step = "ipc"]
            /\ UNCHANGED <<registry, userData, localActiveSessions, redisQ, userQ,
                           sess, cyc, media, reddit, effects, deductions, now,
                           batchCall, selectCall, premiumKeys, commands>>

\* A remote function that acknowledges without ending anything, for
\* comparison.
BroadcastEvalAckOnly(c) ==
    /\ calls[c].op = "end" /\ calls[c].pc = "ipc"
    /\ \E target \in ParseInt(calls[c].res) :
          calls' = [calls EXCEPT ![c].pc = "replied",
              ![c].res = IF MapHas(localActiveSessions[target], calls[c].user)
                         THEN "true" ELSE "false"]
    /\ UNCHANGED <<registry, userData, localActiveSessions, redisQ, userQ,
                   sess, cyc, media, reddit, effects, deductions, now,
                   batchCall, selectCall, premiumKeys, commands>>

\* The function sent by broadcastEval runs on the shard the registry named.
BroadcastEvalRun(c) ==
    /\ calls[c].op = "end" /\ calls[c].pc = "ipc"
    /\ \E target \in ParseInt(calls[c].res) :
       LET u == calls[c].user IN
       IF MapHas(localActiveSessions[target], u) THEN
            /\ EndSession(localActiveSessions[target][u],
                   "Remote End Request", sess, localActiveSessions)
            /\ calls' = [calls EXCEPT ![c].pc = "replied", ![c].res = "true"]
            /\ UNCHANGED <<registry, userData, cyc, now, batchCall, selectCall, premiumKeys, commands>>
       ELSE
            /\ calls' = [calls EXCEPT ![c].pc = "replied", ![c].res = "false"]
            /\ UNCHANGED <<registry, userData, localActiveSessions, redisQ, userQ,
                           sess, cyc, media, reddit, effects, deductions, now,
                           batchCall, selectCall, premiumKeys, commands>>

\* broadcastEval rejects: the request channel failed.
BroadcastEvalFail(c) ==
    /\ calls[c].op = "end" /\ calls[c].pc = "ipc"
    /\ calls' = [calls EXCEPT ![c].pc = "replied", ![c].res = "ERR"]
    /\ UNCHANGED <<registry, userData, localActiveSessions, redisQ, userQ, sess, cyc,
                   media, reddit, effects, deductions, now, batchCall,
                   selectCall, premiumKeys, commands>>

\* A requester that returns false on 'not found' or a channel error and
\* clears nothing, for comparison.
EndSessionResultsUncleared(c) ==
    /\ calls[c].op = "end" /\ calls[c].pc = "replied"
    /\ calls[c].step = "ipc"
    /\ calls' = [calls EXCEPT ![c].pc = "done",
                    ![c].ret = IF calls[c].res = "true" THEN "true"
                               ELSE "false"]
    /\ UNCHANGED <<registry, userData, localActiveSessions, redisQ, userQ,
                   sess, cyc, media, reddit, effects, deductions, now,
                   batchCall, selectCall, premiumKeys, commands>>

\* The results of broadcastEval are back on the requesting shard.
EndSessionGotResults(c) ==
    /\ calls[c].op = "end" /\ calls[c].pc = "replied"
    /\ calls[c].step = "ipc"
    /\ LET sh == calls[c].shard
           u == calls[c].user IN
       IF calls[c].res = "true" THEN
            /\ calls' = [calls EXCEPT ![c].pc = "done", ![c].ret = "true"]
            /\ UNCHANGED <<registry, userData, localActiveSessions, redisQ, userQ,
                           sess, cyc, media, reddit, effects, deductions, now,
                           batchCall, selectCall, premiumKeys, commands>>
       ELSE
            \* not found, or channel error: await this.deleteSession(userId)
            /\ localActiveSessions' =
                   DeleteSessionLocal(localActiveSessions, sh, u)
            /\ redisQ' = DeleteSessionQueue(redisQ, sh, u, "call", c)
            /\ calls' = [calls EXCEPT ![c].pc = "waiting", ![c].step = "del"]
            /\ UNCHANGED <<registry, userData, userQ, sess, cyc, media,
                           reddit, effects, deductions, now, batchCall,
                           selectCall, premiumKeys, commands>>

\* deleteSession has returned (its DEL answered or failed): return false.
EndSessionCleaned(c) ==
    /\ calls[c].op = "end" /\ calls[c].pc = "replied"
    /\ calls[c].step = "del"
    /\ calls' = [calls EXCEPT ![c].pc = "done", ![c].ret = "false"]
    /\ UNCHANGED <<registry, userData, localActiveSessions, redisQ, userQ, sess, cyc,
                   media, reddit, effects, deductions, now, batchCall,
                   selectCall, premiumKeys, commands>>

\* ------------------------------------------------- a session's own triggers
\* In the coordinator's specification the session's own triggers (quota
\* check, duration timer, DM channel failure, opening message failure) are
\* one step: some code holding the returned Session calls its endSession.
SessionTrigger(s) ==
    /\ s \in DOMAIN sess
    /\ calls[s].ret = "session"
    /\ EndSession(s, "Session Trigger", sess, localActiveSessions)
    /\ UNCHANGED <<registry, userData, calls, cyc, now, batchCall, selectCall, premiumKeys,
                   commands>>

\* messageCreate's execute on a direct message of the user of the active
\* Session s that reads "stop".  `SessionManager.getSession` is no function
\* of SessionManager: the call throws before the text is looked at, and the
\* handler ends there with nothing changed.
MessageCreateStop(s) ==
    /\ s \in DOMAIN sess
    /\ calls[s].ret = "session"
    /\ sess[s].isActive
    /\ ~effects[s].stopCommand
    /\ effects' = [effects EXCEPT ![s].stopCommand = TRUE]
    /\ UNCHANGED <<registry, userData, localActiveSessions, redisQ, userQ,
                   calls, sess, cyc, media, reddit, deductions, now,
                   batchCall, selectCall, premiumKeys, commands>>

\* recordTrigger(): returns when lastSentMediaInfo, its post or an array
\* post.tags is missing; else adds every tag of the array to triggeredTags.
RecordTriggerTags(md) ==
    IF md.lastSentMediaInfo = Null
       \/ ~PostTags(md.lastSentMediaInfo).isArray
    THEN md.triggeredTags
    ELSE md.triggeredTags \cup PostTags(md.lastSentMediaInfo).tags

\* The user presses the trigger button under a media message: the handler
\* took the Session from the local map when the press arrived and, its
\* registry lookup answered, calls recordTrigger() on it.
RecordTrigger(s) ==
    /\ s \in DOMAIN sess
    /\ calls[s].ret = "session"
    /\ media' = [media EXCEPT ![s].triggeredTags =
                     RecordTriggerTags(media[s])]
    /\ effects' = [effects EXCEPT ![s].triggerPressed = TRUE]
    /\ UNCHANGED <<registry, userData, localActiveSessions, redisQ, userQ,
                   calls, sess, cyc, reddit, deductions, now, batchCall,
                   selectCall, premiumKeys, commands>>

\* ------------------------------------------------------------- the clock
\* Time passes up to the next instant at which the clock is observed; it
\* is read only by sessions, so it rests when none is active.
Tick(last) ==
    /\ now < last
    /\ \E s \in DOMAIN sess : sess[s].isActive
    /\ now' = IF now = EarlyTicks * TickMs THEN LateStart ELSE now + TickMs
    /\ UNCHANGED <<registry, userData, localActiveSessions, redisQ, userQ, calls,
                   sess, cyc, media, reddit, effects, deductions, batchCall, selectCall, premiumKeys, commands>>

\* ------------------------------------------------ fetchNextRedditPage
\* this.redditFetchState[sub] = { after: null, isFetching: false,
\*                                allFetched: false, currentPage: 0 }
\* for every subreddit of the plugin; cursor 0 is null.
InitialRedditFetchState ==
    [sub \in {SourceList[i] : i \in DOMAIN SourceList} |->
        [after |-> 0, isFetching |-> FALSE, allFetched |-> FALSE,
         currentPage |-> 0]]

\* The request without the look at isFetching and allFetched, for comparison.
FetchNextRedditPageUnguarded(r, active, sub, awaiter) ==
    IF ~active \/ sub \notin DOMAIN r.state THEN r
    ELSE [r EXCEPT
            !.state[sub].isFetching = TRUE,
            !.requests[sub] = Append(@, r.state[sub].after),
            !.pending = @ \cup {[sub |-> sub, after |-> r.state[sub].after,
                                 awaiter |-> awaiter]}]

\* fetchNextRedditPage(subreddit, isBackground) up to the request: r is the
\* session's reddit record, awaiter says who awaits the answer ("none" for
\* a background fetch).
FetchNextRedditPage(r, active, sub, awaiter) ==
    IF ~active \/ sub \notin DOMAIN r.state THEN r
    ELSE IF r.state[sub].isFetching \/ r.state[sub].allFetched THEN r
    ELSE [r EXCEPT
            !.state[sub].isFetching = TRUE,
            !.requests[sub] = Append(@, r.state[sub].after),
            !.pending = @ \cup {[sub |-> sub, after |-> r.state[sub].after,
                                 awaiter |-> awaiter]}]

\* Object.keys(this.redditFetchState).filter(sub => !allFetched &&
\* !isFetching): the subreddits a fetch can be started for, in key order.
SubredditsToFetch(r) ==
    SelectSeq(SourceList,
        LAMBDA sub : /\ sub \in DOMAIN r.state
                     /\ ~r.state[sub].allFetched
                     /\ ~r.state[sub].isFetching)

\* getSubredditTopPosts(subreddit, 100, 'all', after): null on error, an
\* empty page, or a page with posts and the cursor of the next page (0 when
\* the listing ends).  The listing's cursors advance with every page.
\* PageItems are the suitable locators a page with posts can carry.
PageItems == {{}, {"a", "b"}}
GetSubredditTopPosts(after) ==
    {[ok |-> FALSE, hasPosts |-> FALSE, items |-> {}, after |-> 0],
     [ok |-> TRUE, hasPosts |-> FALSE, items |-> {}, after |-> 0]} \cup
    {[ok |-> TRUE, hasPosts |-> TRUE, items |-> I, after |-> a] :
        I \in PageItems, a \in {0} \cup ((after + 1)..MaxPages)}

\* The chain without `state.after = result.after`, for comparison.
RedditPageCursorKept(r, active, sub, result) ==
    IF ~active \/ sub \notin DOMAIN r.state THEN r
    ELSE IF result.ok /\ result.hasPosts
    THEN [r EXCEPT !.pool = @ \cup result.items,
                   !.state[sub].currentPage = @ + 1,
                   !.state[sub].isFetching = FALSE]
    ELSE [r EXCEPT !.state[sub].allFetched = TRUE,
                   !.state[sub].isFetching = FALSE]

\* The .then/.catch/.finally chain of fetchNextRedditPage on the answer.
RedditPageAnswered(r, active, sub, result) ==
    IF ~active \/ sub \notin DOMAIN r.state THEN r
    ELSE IF result.ok /\ result.hasPosts
    THEN [r EXCEPT !.pool = @ \cup result.items,
                   !.state[sub].after = result.after,
                   !.state[sub].currentPage = @ + 1,
                   !.state[sub].allFetched = (result.after = 0),
                   !.state[sub].isFetching = FALSE]
    ELSE [r EXCEPT !.state[sub].allFetched = TRUE,
                   !.state[sub].isFetching = FALSE]

\* ------------------------------------ set-up: initializeDmAndStartSession
\* A message id the session does not remember at present.
NewMessageId(md) == IF md.lastMessageId = 1 THEN 2 ELSE 1

\* No restart of the timer, for comparison.
NoActionLoopTimer(ss, s) == ss

\* startActionLoopTimer(client)
StartActionLoopTimer(ss, s) ==
    IF ss[s].isActive
    THEN [ss EXCEPT ![s].actionLoopTimerId = ACTION_INTERVAL_MS]
    ELSE ss

\* interaction.user.createDM() has answered.  On success startTimers runs
\* up to its first modelled await (the avatar lookup before it changes
\* nothing that is modelled): for a real character the first page of the
\* first subreddit, else `await this.getDmChannel(client)`.  On failure the
\* catch block ends the session.
SetupCreateDM(s, ok) ==
    /\ s \in DOMAIN sess
    /\ calls[s].ret = "session"
    /\ sess[s].setup = "created"
    /\ IF ~ok THEN
            /\ EndSession(s, "DM Initialization Failed",
                   [sess EXCEPT ![s].setup = "done"], localActiveSessions)
       ELSE IF ~sess[s].isActive THEN
            /\ sess' = [sess EXCEPT ![s].dmChannelId = TRUE,
                                    ![s].setup = "confirm"]
            /\ UNCHANGED <<localActiveSessions, redisQ, userQ, effects, deductions,
                           media, reddit>>
       ELSE IF sess[s].characterType = "real" THEN
            /\ sess' = [sess EXCEPT ![s].dmChannelId = TRUE,
                                    ![s].setup = "reddit"]
            /\ reddit' = [reddit EXCEPT ![s] =
                   FetchNextRedditPage(
                       [@ EXCEPT !.state = InitialRedditFetchState],
                       TRUE, SourceList[1], "setup")]
            /\ UNCHANGED <<localActiveSessions, redisQ, userQ, effects, deductions,
                           media>>
       ELSE
            /\ sess' = [sess EXCEPT ![s].dmChannelId = TRUE,
                                    ![s].setup = "dm"]
            /\ UNCHANGED <<localActiveSessions, redisQ, userQ, effects, deductions,
                           media, reddit>>
    /\ UNCHANGED <<registry, userData, calls, cyc, now, batchCall, selectCall, premiumKeys,
                   commands>>

\* getDmChannel in startTimers has answered.
SetupDmChannel(s, ok) ==
    /\ s \in DOMAIN sess
    /\ sess[s].setup = "dm"
    /\ IF ok THEN
            /\ sess' = [sess EXCEPT
                   ![s].setup = IF sess[s].isActive THEN "opener"
                                ELSE "confirm"]
            /\ UNCHANGED <<localActiveSessions, redisQ, userQ, effects, deductions,
                           media, reddit>>
       ELSE
            /\ EndSession(s, "DM Channel Fetch Failed",
                   [sess EXCEPT ![s].setup = "confirm"], localActiveSessions)
    /\ UNCHANGED <<registry, userData, calls, cyc, now, batchCall, selectCall, premiumKeys,
                   commands>>

\* The send of the opening message has answered.  On success the message
\* id is stored, the first cycle is scheduled if the session is active, and
\* the duration timer is set when durationMinutes > 0.
SetupOpener(s, ok) ==
    /\ s \in DOMAIN sess
    /\ sess[s].setup = "opener"
    /\ IF ok THEN
            /\ media' = [media EXCEPT
                   ![s].currentCommentaryMessageId = NewMessageId(media[s]),
                   ![s].lastMessageId = NewMessageId(media[s])]
            /\ sess' = [sess EXCEPT
                   ![s].setup = "confirm",
                   ![s].firstCycleTimer =
                       IF sess[s].isActive THEN FIRST_CYCLE_DELAY_MS ELSE @,
                   ![s].sessionEndTimerId =
                       IF sess[s].durationMinutes > 0
                       THEN sess[s].durationMinutes * MinuteMs ELSE @,
                   ![s].sessionEndAt =
                       IF sess[s].durationMinutes > 0
                       THEN now + sess[s].durationMinutes * MinuteMs ELSE @]
            /\ UNCHANGED <<localActiveSessions, redisQ, userQ, effects, deductions,
                           reddit>>
       ELSE
            /\ EndSession(s, "Opening Message Failed",
                   [sess EXCEPT ![s].setup = "confirm"], localActiveSessions)
    /\ UNCHANGED <<registry, userData, calls, cyc, now, batchCall, selectCall, premiumKeys,
                   commands>>

\* startTimers has returned; the confirmation editReply has answered.  Its
\* failure reaches the catch block, which ends the session.
SetupConfirm(s, ok) ==
    /\ s \in DOMAIN sess
    /\ sess[s].setup = "confirm"
    /\ IF ok THEN
            /\ sess' = [sess EXCEPT ![s].setup = "done"]
            /\ UNCHANGED <<localActiveSessions, redisQ, userQ, effects, deductions,
                           media, reddit>>
       ELSE
            /\ EndSession(s, "DM Initialization Failed",
                   [sess EXCEPT ![s].setup = "done"], localActiveSessions)
    /\ UNCHANGED <<registry, userData, calls, cyc, now, batchCall, selectCall, premiumKeys,
                   commands>>

\* --------------------------------------------------- the duration timer
\* The timeout set in startTimers fires, not before its delay has passed.
SessionEndTimerFire(s) ==
    /\ s \in DOMAIN sess
    /\ sess[s].sessionEndTimerId # 0
    /\ now >= sess[s].sessionEndAt
    /\ sess' = [sess EXCEPT ![s].sessionEndTimerId = 0,
                   ![s].endTimerPc = IF sess[s].isActive THEN "dm" ELSE @]
    /\ UNCHANGED <<registry, userData, localActiveSessions, redisQ, userQ, calls,
                   cyc, media, reddit, effects, deductions, now, batchCall,
                   selectCall, premiumKeys, commands>>

\* getDmChannel in the timer callback has answered: on failure it ends the
\* session itself and the callback goes on to its own endSession call.
EndTimerDmChannel(s, ok) ==
    /\ s \in DOMAIN sess
    /\ sess[s].endTimerPc = "dm"
    /\ IF ok THEN
            /\ sess' = [sess EXCEPT ![s].endTimerPc = "send"]
            /\ UNCHANGED <<localActiveSessions, redisQ, userQ, effects, deductions,
                           media, reddit>>
       ELSE
            /\ EndSession(s, "DM Channel Fetch Failed",
                   [sess EXCEPT ![s].endTimerPc = "end"], localActiveSessions)
    /\ UNCHANGED <<registry, userData, calls, cyc, now, batchCall, selectCall, premiumKeys,
                   commands>>

\* The closing message was sent or failed, or there was no channel:
\* this.endSession('Duration Reached').
EndTimerEnd(s) ==
    /\ s \in DOMAIN sess
    /\ sess[s].endTimerPc \in {"send", "end"}
    /\ EndSession(s, "Duration Reached",
           [sess EXCEPT ![s].endTimerPc = "idle"], localActiveSessions)
    /\ UNCHANGED <<registry, userData, calls, cyc, now, batchCall, selectCall, premiumKeys,
                   commands>>

\* ------------------------------------- executeNextActionCycle: its start
\* if (!this.isActive) return; await UserData.getUserPremiumStatus(...)
\* A cycle started while another one is in flight is recorded as such.
ExecuteNextActionCycle(ss, s) ==
    /\ sess' = ss
    /\ IF ss[s].isActive THEN
            /\ cyc' = [cyc EXCEPT ![s] = [IdleCycle EXCEPT !.pc = "premium"]]
            /\ userQ' = [userQ EXCEPT ![ss[s].shard] = Append(@,
                   Cmd("uget", ss[s].userId, DefaultUserData, "cycle", s))]
            /\ effects' = [effects EXCEPT ![s].overlapped =
                               @ \/ cyc[s].pc # "idle"]
       ELSE UNCHANGED <<cyc, userQ, effects>>
    /\ UNCHANGED <<registry, userData, localActiveSessions, redisQ, calls,
                   media, reddit, deductions, now, batchCall, selectCall,
                   premiumKeys, commands>>

\* The timeout scheduled after the opening message fires.
FirstCycleTimerFire(s) ==
    /\ s \in DOMAIN sess
    /\ sess[s].firstCycleTimer # 0
    /\ ExecuteNextActionCycle([sess EXCEPT ![s].firstCycleTimer = 0], s)

\* A timer that stays pending when it fires, as an interval would, for
\* comparison.
ActionLoopIntervalFire(s) ==
    /\ s \in DOMAIN sess
    /\ sess[s].actionLoopTimerId # 0
    /\ ExecuteNextActionCycle(sess, s)

\* The timeout of startActionLoopTimer fires.
ActionLoopTimerFire(s) ==
    /\ s \in DOMAIN sess
    /\ sess[s].actionLoopTimerId # 0
    /\ ExecuteNextActionCycle([sess EXCEPT ![s].actionLoopTimerId = 0], s)

\* The timeout set in the cycle's catch block fires:
\* this.startActionLoopTimer(client)
BackoffTimerFire(s) ==
    /\ s \in DOMAIN sess
    /\ sess[s].backoffTimer # 0
    /\ sess' = StartActionLoopTimer([sess EXCEPT ![s].backoffTimer = 0], s)
    /\ UNCHANGED <<registry, userData, localActiveSessions, redisQ, userQ,
                   calls, cyc, media, reddit, effects, deductions, now,
                   batchCall, selectCall, premiumKeys, commands>>

\* getUserPremiumStatus has answered: await this.getDmChannel(client)
CyclePremium(s) ==
    /\ s \in DOMAIN sess
    /\ cyc[s].pc = "premium" /\ cyc[s].replied
    /\ cyc' = [cyc EXCEPT ![s].pc = "dm", ![s].replied = FALSE]
    /\ UNCHANGED <<registry, userData, localActiveSessions, redisQ, userQ, calls,
                   sess, media, reddit, effects, deductions, now, batchCall,
                   selectCall, premiumKeys, commands>>

\* getDmChannel has answered.  On success and still active: elapsedMs and
\* elapsedMinutes are computed, then `await UserData.getUserTime(...)`.
CycleDmChannel(s, ok) ==
    /\ s \in DOMAIN sess
    /\ cyc[s].pc = "dm"
    /\ IF ~ok THEN
            /\ EndSession(s, "DM Channel Fetch Failed", sess,
                   localActiveSessions)
            /\ cyc' = [cyc EXCEPT ![s].pc = "idle"]
       ELSE IF ~sess[s].isActive THEN
            /\ cyc' = [cyc EXCEPT ![s].pc = "idle"]
            /\ UNCHANGED <<sess, localActiveSessions, redisQ, userQ, effects,
                           deductions, media, reddit>>
       ELSE
            /\ cyc' = [cyc EXCEPT ![s].pc = "time",
                                  ![s].elapsedMs = now - sess[s].startTime]
            /\ userQ' = [userQ EXCEPT ![sess[s].shard] = Append(@,
                   Cmd("uget", sess[s].userId, DefaultUserData, "cycle", s))]
            /\ UNCHANGED <<sess, localActiveSessions, redisQ, effects,
                           deductions, media, reddit>>
    /\ UNCHANGED <<registry, userData, calls, now, batchCall, selectCall, premiumKeys,
                   commands>>

\* The check on milliseconds, without the rounding, for comparison.
OutOfTimeUnrounded(c) == c.elapsedMs >= c.remainingTime * MinuteMs

\* if (elapsedMinutes >= remainingTime)
OutOfTime(c) == Ceil(c.elapsedMs, MinuteMs) >= c.remainingTime

\* A cycle that returns when the closing notice could not be delivered,
\* for comparison.
CycleNoticeUndelivered(s) ==
    /\ s \in DOMAIN sess
    /\ cyc[s].pc = "notice"
    /\ cyc' = [cyc EXCEPT ![s].pc = "idle"]
    /\ UNCHANGED <<registry, userData, localActiveSessions, redisQ, userQ,
                   calls, sess, media, reddit, effects, deductions, now,
                   batchCall, selectCall, premiumKeys, commands>>

\* The closing notice was sent or failed: this.endSession('Ran out of time')
CycleNotice(s) ==
    /\ s \in DOMAIN sess
    /\ cyc[s].pc = "notice"
    /\ EndSession(s, "Ran out of time", sess, localActiveSessions)
    /\ cyc' = [cyc EXCEPT ![s].pc = "idle"]
    /\ UNCHANGED <<registry, userData, calls, now, batchCall, selectCall, premiumKeys,
                   commands>>

\* --------------------------- executeNextActionCycle: refill and delivery
\* Sequences over S of a length in lens.
SeqsOf(S, lens) == UNION {[1..n -> S] : n \in lens}

\* A fetch that does not look at the posted set, for comparison.
FetchMediaBatchUnfiltered(posted, batchSize) ==
    {q \in SeqsOf(Urls, 0..batchSize) :
        \A i, j \in DOMAIN q : i # j => q[i] # q[j]}

\* MediaFetcher.fetchMediaBatch: up to batchSize items, none in the posted
\* set, no locator twice; which ones depends on the pages it happens to see.
FetchMediaBatch(posted, batchSize) ==
    {q \in SeqsOf(Urls \ posted, 0..batchSize) :
        \A i, j \in DOMAIN q : i # j => q[i] # q[j]}

\* ------------------------------- MediaFetcher.fetchMediaBatch, its loop
\* No call of fetchMediaBatch.
NoBatchCall == [pc |-> "none"]

\* fetchMediaBatch('fictional', tags, postedMediaUrls, sessionId, batchSize,
\* maxPageAttempts) up to its loop: attemptedPages = new Set(),
\* foundMediaBatch = [], currentAttempts = 0.  requestedTwice and yielded
\* are no locals of the function: they tell that a page index was
\* requested again and that a requested page held a qualifying locator
\* outside the posted set.
NewBatchCall(posted, batchSize, maxPageAttempts) ==
    [pc |-> "loop", postedMediaUrls |-> posted, batchSize |-> batchSize,
     maxPageAttempts |-> maxPageAttempts, attemptedPages |-> {},
     foundMediaBatch |-> <<>>, currentAttempts |-> 0, randomPageId |-> 0,
     requestedTwice |-> FALSE, yielded |-> FALSE]

\* The posts of a page: each with its file_url and whether it passes the
\* filter (a direct media url and a score above 100).
Posts == [url : Urls, suitable : BOOLEAN]
\* rule34Client.searchPosts(tags, 100, page): null (ok false) on a request
\* error, [] for an empty answer or one that is no array, else the posts.
SearchPosts ==
    {[ok |-> FALSE, posts |-> <<>>]} \cup
    {[ok |-> TRUE, posts |-> q] : q \in SeqsOf(Posts, 0..2)}

\* A draw that is not repeated when it hits an attempted page, for
\* comparison.
RandomPagesRepeating(attempted) == 0..MAX_FETCH_PAGE

\* The page indexes the do-while can leave in randomPageId.
RandomPages(attempted) == (0..MAX_FETCH_PAGE) \ attempted

\* The while condition.
BatchLoopGoesOn(b) ==
    /\ Len(b.foundMediaBatch) < b.batchSize
    /\ b.currentAttempts < b.maxPageAttempts
    /\ Cardinality(b.attemptedPages) <= MAX_FETCH_PAGE + 1

\* One turn of the loop up to `await rule34Client.searchPosts`, or the
\* return when the condition fails or every page has been attempted.
BatchLoop ==
    /\ batchCall.pc = "loop"
    /\ IF ~BatchLoopGoesOn(batchCall)
       THEN batchCall' = [batchCall EXCEPT !.pc = "done"]
       ELSE IF Cardinality(batchCall.attemptedPages) >= MAX_FETCH_PAGE + 1
       THEN batchCall' = [batchCall EXCEPT !.pc = "done",
                                           !.currentAttempts = @ + 1]
       ELSE \E page \in RandomPages(batchCall.attemptedPages) :
               batchCall' = [batchCall EXCEPT
                   !.pc = "await",
                   !.currentAttempts = @ + 1,
                   !.randomPageId = page,
                   !.attemptedPages = @ \cup {page},
                   !.requestedTwice = @ \/ page \in batchCall.attemptedPages]
    /\ UNCHANGED <<registry, userData, localActiveSessions, redisQ, userQ,
                   calls, sess, cyc, media, reddit, effects, deductions, now,
                   selectCall, premiumKeys, commands>>

\* A loop that pushes whatever suits, for comparison.
RECURSIVE AddAny(_, _, _, _)
AddAny(found, posts, posted, batchSize) ==
    IF posts = <<>> \/ Len(found) >= batchSize THEN found
    ELSE AddAny(IF Head(posts).suitable
                THEN Append(found, Head(posts).url) ELSE found,
                Tail(posts), posted, batchSize)

\* for (const post of suitablePosts): a post is pushed unless the batch
\* is full, its url is posted or its url is in the batch already.
RECURSIVE AddUnique(_, _, _, _)
AddUnique(found, posts, posted, batchSize) ==
    IF posts = <<>> \/ Len(found) >= batchSize THEN found
    ELSE LET p == Head(posts) IN
         AddUnique(IF p.suitable /\ p.url \notin posted
                      /\ \A i \in DOMAIN found : found[i] # p.url
                   THEN Append(found, p.url) ELSE found,
                   Tail(posts), posted, batchSize)

\* searchPosts has answered: null or no posts, `continue`; else the
\* filter and the inner loop.
BatchPage(answer) ==
    /\ batchCall.pc = "await"
    /\ answer \in SearchPosts
    /\ batchCall' =
          IF ~answer.ok \/ answer.posts = <<>>
          THEN [batchCall EXCEPT !.pc = "loop"]
          ELSE [batchCall EXCEPT
                  !.pc = "loop",
                  !.foundMediaBatch =
                      AddUnique(@, answer.posts, batchCall.postedMediaUrls,
                                batchCall.batchSize),
                  !.yielded = @ \/ \E i \in DOMAIN answer.posts :
                      /\ answer.posts[i].suitable
                      /\ answer.posts[i].url \notin
                             batchCall.postedMediaUrls]
    /\ UNCHANGED <<registry, userData, localActiveSessions, redisQ, userQ,
                   calls, sess, cyc, media, reddit, effects, deductions, now,
                   selectCall, premiumKeys, commands>>

\* LlmClient.generateBatchCommentary: {commentaries: null} when there is no
\* model, the call fails or the answer does not parse as an array of
\* strings; otherwise the array, whatever its length.
BatchCommentaryOver(S) ==
    {[ok |-> FALSE, commentaries |-> <<>>]} \cup
    {[ok |-> TRUE, commentaries |-> q] :
        q \in SeqsOf(S, 0..(COMMENTARY_BATCH_SIZE + 1))}
GenerateBatchCommentary ==
    BatchCommentaryOver(CommentaryStrings \cup {TooLong})

\* The comparison without the count, for comparison.
CommentaryAnyLength(r, mq) == r.ok

\* batchLlmResult && batchLlmResult.commentaries &&
\* batchLlmResult.commentaries.length === this.mediaBatchQueue.length
CommentaryMatches(r, mq) == r.ok /\ Len(r.commentaries) = Len(mq)

\* Steps 3 to 6 up to the first await, given what was dequeued (Null when
\* nothing was) and the session and media records so far.  Building the
\* embed of a commentary that is too long throws: the catch block of the
\* cycle schedules startActionLoopTimer after half an interval.
\* A skip that leaves the timer alone, for comparison.
AfterDequeueNoRestart(s, ss, md, m, k) ==
    /\ sess' = ss
    /\ media' = IF m = Null \/ k = Null \/ k = "" THEN md
                ELSE [md EXCEPT ![s].lastSentMediaInfo = m]
    /\ cyc' = [cyc EXCEPT ![s] = IdleCycle]

AfterDequeue(s, ss, md, m, k) ==
    IF m = Null \/ k = Null \/ k = "" THEN
        \* nothing to send: restart the timer if still active, return
        /\ sess' = StartActionLoopTimer(ss, s)
        /\ media' = md
        /\ cyc' = [cyc EXCEPT ![s] = IdleCycle]
    ELSE IF k = TooLong /\ ss[s].isActive THEN
        /\ sess' = [ss EXCEPT ![s].backoffTimer = ACTION_INTERVAL_MS \div 2]
        /\ media' = [md EXCEPT ![s].lastSentMediaInfo = m]
        /\ cyc' = [cyc EXCEPT ![s] = IdleCycle]
    ELSE
        /\ sess' = ss
        /\ media' = [md EXCEPT ![s].lastSentMediaInfo = m]
        /\ cyc' = [cyc EXCEPT ![s] =
              IF ss[s].isActive
              THEN [IdleCycle EXCEPT
                      !.pc = IF md[s].currentCommentaryMessageId # 0
                             THEN "cEdit" ELSE "cSend",
                      !.isPremium = cyc[s].isPremium,
                      !.mediaToSend = m, !.commentaryToSend = k]
              ELSE IdleCycle]

\* shift() of both queues when both are non-empty
Dequeue(s, ss, md) ==
    IF md[s].commentaryQueue # <<>> /\ md[s].mediaBatchQueue # <<>>
    THEN AfterDequeue(s, ss,
             [md EXCEPT ![s].mediaBatchQueue = Tail(@),
                        ![s].commentaryQueue = Tail(@)],
             Head(md[s].mediaBatchQueue), Head(md[s].commentaryQueue))
    ELSE AfterDequeue(s, ss, md, Null, Null)

\* getUserTime has answered: the quota check, then the queue check.  With
\* queued pairs the cycle dequeues; otherwise it empties both queues and
\* awaits fetchMediaBatch.
CycleUserTime(s) ==
    /\ s \in DOMAIN sess
    /\ sess[s].characterType = "fictional"
    /\ cyc[s].pc = "time" /\ cyc[s].replied
    /\ IF OutOfTime(cyc[s]) THEN
            /\ cyc' = [cyc EXCEPT ![s].pc = "notice", ![s].replied = FALSE]
            /\ UNCHANGED <<sess, media>>
       ELSE LET ss == [sess EXCEPT ![s].actionLoopTimerId = 0]
                md == [media EXCEPT ![s].discarded = FALSE] IN
            IF md[s].commentaryQueue # <<>> /\ md[s].mediaBatchQueue # <<>>
            THEN Dequeue(s, ss, md)
            ELSE /\ sess' = ss
                 /\ media' = [md EXCEPT ![s].mediaBatchQueue = <<>>,
                                        ![s].commentaryQueue = <<>>]
                 /\ cyc' = [cyc EXCEPT ![s].pc = "fetch",
                                       ![s].replied = FALSE]
    /\ UNCHANGED <<registry, userData, localActiveSessions, redisQ, userQ, calls,
                   reddit, effects, deductions, now, batchCall, selectCall,
                   premiumKeys, commands>>

\* fetchMediaBatch has answered with batch.  A non-empty batch becomes the
\* media queue and the cycle awaits generateBatchCommentary.
CycleFetched(s, batch) ==
    /\ s \in DOMAIN sess
    /\ cyc[s].pc = "fetch"
    /\ batch \in FetchMediaBatch(media[s].postedMediaUrls,
                                 COMMENTARY_BATCH_SIZE)
    /\ IF batch # <<>> THEN
            /\ media' = [media EXCEPT ![s].mediaBatchQueue = batch]
            /\ cyc' = [cyc EXCEPT ![s].pc = "llm"]
            /\ UNCHANGED sess
       ELSE Dequeue(s, sess, media)
    /\ UNCHANGED <<registry, userData, localActiveSessions, redisQ, userQ, calls,
                   reddit, effects, deductions, now, batchCall, selectCall,
                   premiumKeys, commands>>

\* The commentary service answers.
LlmReply(s, r) ==
    /\ s \in DOMAIN sess
    /\ cyc[s].pc = "llm" /\ ~cyc[s].replied
    /\ r \in GenerateBatchCommentary
    /\ cyc' = [cyc EXCEPT ![s].llm = r, ![s].replied = TRUE]
    /\ UNCHANGED <<registry, userData, localActiveSessions, redisQ, userQ, calls,
                   sess, media, reddit, effects, deductions, now, batchCall,
                   selectCall, premiumKeys, commands>>

\* After `await generateBatchCommentary`: install the commentaries or
\* discard the batch, then dequeue.
CycleCommentary(s) ==
    /\ s \in DOMAIN sess
    /\ cyc[s].pc = "llm" /\ cyc[s].replied
    /\ LET r == cyc[s].llm
           md == IF CommentaryMatches(r, media[s].mediaBatchQueue)
                 THEN [media EXCEPT ![s].commentaryQueue = r.commentaries]
                 ELSE [media EXCEPT ![s].mediaBatchQueue = <<>>,
                                    ![s].commentaryQueue = <<>>,
                                    ![s].discarded = TRUE] IN
       Dequeue(s, sess, md)
    /\ UNCHANGED <<registry, userData, localActiveSessions, redisQ, userQ, calls,
                   reddit, effects, deductions, now, batchCall, selectCall,
                   premiumKeys, commands>>

\* A cycle's end that takes the backoff when the media was not delivered,
\* for comparison.
FinishBackingOff(s, md, dlv, sent) ==
    /\ media' = IF sent
                THEN [md EXCEPT ![s].postedMediaUrls =
                                    @ \cup {cyc[s].mediaToSend},
                                ![s].lastDelivered = cyc[s].mediaToSend,
                                ![s].deliveredUrls =
                                    @ \cup {cyc[s].mediaToSend}]
                ELSE md
    /\ sess' = IF sent \/ ~sess[s].isActive
               THEN StartActionLoopTimer(sess, s)
               ELSE [sess EXCEPT ![s].backoffTimer = ACTION_INTERVAL_MS \div 2]
    /\ cyc' = [cyc EXCEPT ![s] =
                  [IdleCycle EXCEPT !.commentaryDelivered = dlv,
                                    !.mediaSentOrEdited = sent]]

\* Step 5 up to its first await, or the end of the cycle when the session
\* is no longer active.
Finish(s, md, dlv, sent) ==
    /\ media' = IF sent
                THEN [md EXCEPT ![s].postedMediaUrls =
                                    @ \cup {cyc[s].mediaToSend},
                                ![s].lastDelivered = cyc[s].mediaToSend,
                                ![s].deliveredUrls =
                                    @ \cup {cyc[s].mediaToSend}]
                ELSE md
    /\ sess' = StartActionLoopTimer(sess, s)
    /\ cyc' = [cyc EXCEPT ![s] =
                  [IdleCycle EXCEPT !.commentaryDelivered = dlv,
                                    !.mediaSentOrEdited = sent]]

\* A media step that always sends a new message, for comparison.
SendMediaAlwaysNew(s, md, dlv) ==
    IF sess[s].isActive
    THEN /\ media' = md
         /\ cyc' = [cyc EXCEPT ![s].pc = "mSend",
                               ![s].commentaryDelivered = dlv]
         /\ UNCHANGED sess
    ELSE Finish(s, md, dlv, FALSE)

\* Step 5 begins: with a remembered media message id the cycle awaits the
\* fetch and edit of that message, else the send of a new one.
SendMedia(s, md, dlv) ==
    IF sess[s].isActive
    THEN /\ media' = md
         /\ cyc' = [cyc EXCEPT
                ![s].pc = IF md[s].currentMediaMessageId # 0
                          THEN "mEdit" ELSE "mSend",
                ![s].commentaryDelivered = dlv]
         /\ UNCHANGED sess
    ELSE Finish(s, md, dlv, FALSE)

\* fetch + edit of the commentary message has answered
CycleCommentaryEdited(s, ok) ==
    /\ s \in DOMAIN sess
    /\ cyc[s].pc = "cEdit"
    /\ LET md == IF ok THEN media
                 ELSE [media EXCEPT ![s].currentCommentaryMessageId = 0] IN
       IF md[s].currentCommentaryMessageId = 0 /\ sess[s].isActive
       THEN /\ media' = md
            /\ cyc' = [cyc EXCEPT ![s].pc = "cSend"]
            /\ UNCHANGED sess
       ELSE SendMedia(s, md, ok)
    /\ UNCHANGED <<registry, userData, localActiveSessions, redisQ, userQ, calls,
                   reddit, effects, deductions, now, batchCall, selectCall,
                   premiumKeys, commands>>

\* the send of a new commentary message has answered
CycleCommentarySent(s, ok) ==
    /\ s \in DOMAIN sess
    /\ cyc[s].pc = "cSend"
    /\ SendMedia(s,
           IF ok
           THEN [media EXCEPT
                   ![s].currentCommentaryMessageId = NewMessageId(media[s]),
                   ![s].lastMessageId = NewMessageId(media[s])]
           ELSE media, ok)
    /\ UNCHANGED <<registry, userData, localActiveSessions, redisQ, userQ, calls,
                   reddit, effects, deductions, now, batchCall, selectCall,
                   premiumKeys, commands>>

\* fetch + edit of the media message has answered
CycleMediaEdited(s, ok) ==
    /\ s \in DOMAIN sess
    /\ cyc[s].pc = "mEdit"
    /\ IF ok THEN Finish(s, media, cyc[s].commentaryDelivered, TRUE)
       ELSE LET md == [media EXCEPT ![s].currentMediaMessageId = 0] IN
            IF sess[s].isActive
            THEN /\ media' = md
                 /\ cyc' = [cyc EXCEPT ![s].pc = "mSend"]
                 /\ UNCHANGED sess
            ELSE Finish(s, md, cyc[s].commentaryDelivered, FALSE)
    /\ UNCHANGED <<registry, userData, localActiveSessions, redisQ, userQ, calls,
                   reddit, effects, deductions, now, batchCall, selectCall,
                   premiumKeys, commands>>

\* the send of a new media message has answered
CycleMediaSent(s, ok) ==
    /\ s \in DOMAIN sess
    /\ cyc[s].pc = "mSend"
    /\ IF ok
       THEN Finish(s, [media EXCEPT
                   ![s].currentMediaMessageId = NewMessageId(media[s]),
                   ![s].lastMessageId = NewMessageId(media[s])],
                cyc[s].commentaryDelivered, TRUE)
       ELSE Finish(s, media, cyc[s].commentaryDelivered, FALSE)
    /\ UNCHANGED <<registry, userData, localActiveSessions, redisQ, userQ, calls,
                   reddit, effects, deductions, now, batchCall, selectCall,
                   premiumKeys, commands>>

\* ------------------------- executeNextActionCycle for a real character
\* The random draws from redditPostsPool: a pooled locator not yet posted,
\* or none (Null) when the draws miss or nothing is left.
SelectCandidate(r, md) == (r.pool \ md.postedMediaUrls) \cup {Null}

\* `this.fetchNextRedditPage(subToFetchAsync, true)` for the first
\* subreddit a fetch can be started for, if any.
BackgroundFetch(r, active) ==
    IF SubredditsToFetch(r) # <<>>
    THEN FetchNextRedditPage(r, active, Head(SubredditsToFetch(r)), "none")
    ELSE r

\* A page request answers; an awaited one resumes its awaiter.
RedditReply(s, p, result) ==
    /\ s \in DOMAIN sess
    /\ p \in reddit[s].pending
    /\ result \in GetSubredditTopPosts(p.after)
    /\ reddit' = [reddit EXCEPT ![s] =
           [RedditPageAnswered(@, sess[s].isActive, p.sub, result) EXCEPT
               !.pending = @ \ {p},
               !.replies[p.sub] = Append(@, [ok |-> result.ok,
                                             hasPosts |-> result.hasPosts,
                                             after |-> result.after])]]
    /\ sess' = IF p.awaiter = "setup"
               THEN [sess EXCEPT ![s].setup = "dm"] ELSE sess
    /\ cyc' = IF p.awaiter = "cycle"
              THEN [cyc EXCEPT ![s].replied = TRUE] ELSE cyc
    /\ UNCHANGED <<registry, userData, localActiveSessions, redisQ, userQ, calls,
                   media, effects, deductions, now, batchCall, selectCall,
                   premiumKeys, commands>>

\* No candidate: skip the cycle after triggering the background fetch.
\* A candidate: await its image and generateMediaCommentary.
WithCandidate(s, ss, r, cand) ==
    IF cand = Null
    THEN /\ reddit' = [reddit EXCEPT ![s] = BackgroundFetch(r, ss[s].isActive)]
         /\ AfterDequeue(s, ss, media, Null, Null)
    ELSE /\ reddit' = [reddit EXCEPT ![s] = r]
         /\ sess' = ss
         /\ cyc' = [cyc EXCEPT ![s].pc = "llm1", ![s].replied = FALSE,
                               ![s].mediaToSend = cand]
         /\ UNCHANGED media

\* getUserTime has answered: the quota check, the queue check (the queues
\* of a real character stay empty), then the selection from the pool, with
\* a synchronous page fetch when it finds nothing.
CycleUserTimeReal(s) ==
    /\ s \in DOMAIN sess
    /\ sess[s].characterType = "real"
    /\ cyc[s].pc = "time" /\ cyc[s].replied
    /\ IF OutOfTime(cyc[s]) THEN
            /\ cyc' = [cyc EXCEPT ![s].pc = "notice", ![s].replied = FALSE]
            /\ UNCHANGED <<sess, media, reddit>>
       ELSE LET ss == [sess EXCEPT ![s].actionLoopTimerId = 0] IN
            \E cand \in SelectCandidate(reddit[s], media[s]) :
                IF cand = Null /\ SubredditsToFetch(reddit[s]) # <<>>
                THEN /\ reddit' = [reddit EXCEPT ![s] =
                            FetchNextRedditPage(@, ss[s].isActive,
                                Head(SubredditsToFetch(@)), "cycle")]
                     /\ sess' = ss
                     /\ cyc' = [cyc EXCEPT ![s].pc = "syncFetch",
                                           ![s].replied = FALSE]
                     /\ UNCHANGED media
                ELSE WithCandidate(s, ss, reddit[s], cand)
    /\ UNCHANGED <<registry, userData, localActiveSessions, redisQ, userQ, calls,
                   effects, deductions, now, batchCall, selectCall,
                   premiumKeys, commands>>

\* The synchronous fetch has returned: select again.
CycleSyncFetched(s) ==
    /\ s \in DOMAIN sess
    /\ cyc[s].pc = "syncFetch" /\ cyc[s].replied
    /\ \E cand \in SelectCandidate(reddit[s], media[s]) :
            WithCandidate(s, sess, reddit[s], cand)
    /\ UNCHANGED <<registry, userData, localActiveSessions, redisQ, userQ, calls,
                   effects, deductions, now, batchCall, selectCall,
                   premiumKeys, commands>>

\* generateMediaCommentary has answered with commentary k (Null when it
\* has none): trigger the background fetch, then steps 3 to 6.
CycleMediaCommentary(s, k) ==
    /\ s \in DOMAIN sess
    /\ cyc[s].pc = "llm1"
    /\ k \in CommentaryStrings \cup {Null}
    /\ reddit' = [reddit EXCEPT ![s] = BackgroundFetch(@, sess[s].isActive)]
    /\ AfterDequeue(s, sess, media, cyc[s].mediaToSend, k)
    /\ UNCHANGED <<registry, userData, localActiveSessions, redisQ, userQ, calls,
                   effects, deductions, now, batchCall, selectCall,
                   premiumKeys, commands>>

\* ------------------------------- the selection from redditPostsPool
\* Session.js 338-380: the draws, the synchronous fetch and the draws after
\* it, one loop turn at a time.  redditPostsPool is the list the draws
\* index, r the session's reddit record (r.pool the locators of the list).
\* syncFetches and picks are no locals of the program: they log the
\* subreddits fetched synchronously, with their state at the request, and
\* count the draws.
NoSelectCall == [pc |-> "none"]

NewSelectCall(pool, posted, r) ==
    [pc |-> "pick", isActive |-> TRUE, redditPostsPool |-> pool,
     postedMediaUrls |-> posted, r |-> r, candidate |-> Null, attempts |-> 0,
     maxAttempts |-> Len(pool) + 5, syncFetches |-> <<>>, picks |-> 0]

\* `while (!candidate && attempts < maxAttempts &&
\*         this.redditPostsPool.length > 0)`
SelectLoopGoesOn(c) ==
    /\ c.candidate = Null
    /\ c.attempts < c.maxAttempts
    /\ Len(c.redditPostsPool) > 0

\* Every drawn post taken, for comparison.
MappedAny(c, i) == c.redditPostsPool[i]

\* `if (mappedPost && !this.postedMediaUrls.has(mappedPost.url))
\*      candidate = mappedPost`: the candidate after drawing index i.
Mapped(c, i) ==
    IF c.redditPostsPool[i] \notin c.postedMediaUrls
    THEN c.redditPostsPool[i] ELSE Null

\* One turn of either while loop.
SelectPick ==
    /\ selectCall.pc \in {"pick", "retry"}
    /\ SelectLoopGoesOn(selectCall)
    /\ \E i \in 1..Len(selectCall.redditPostsPool) :
           selectCall' = [selectCall EXCEPT
               !.attempts = @ + 1, !.picks = @ + 1,
               !.candidate = Mapped(selectCall, i)]
    /\ UNCHANGED <<registry, userData, localActiveSessions, redisQ, userQ, calls,
                   sess, cyc, media, reddit, effects, deductions, now,
                   batchCall, premiumKeys, commands>>

\* A loop is left.  The first one: without a candidate,
\* `await this.fetchNextRedditPage(subredditsToFetch[0], false)` if a
\* subreddit is neither fetching nor exhausted.  The second one: the
\* selection is over.
SelectLoopExit ==
    /\ selectCall.pc \in {"pick", "retry"}
    /\ ~SelectLoopGoesOn(selectCall)
    /\ LET c == selectCall
           subs == SubredditsToFetch(c.r) IN
       IF c.pc = "pick" /\ c.candidate = Null /\ subs # <<>>
       THEN selectCall' = [c EXCEPT
               !.pc = "fetch",
               !.r = FetchNextRedditPage(c.r, c.isActive, Head(subs), "cycle"),
               !.syncFetches = Append(@,
                   [sub |-> Head(subs),
                    isFetching |-> c.r.state[Head(subs)].isFetching,
                    allFetched |-> c.r.state[Head(subs)].allFetched])]
       ELSE selectCall' = [c EXCEPT !.pc = "done"]
    /\ UNCHANGED <<registry, userData, localActiveSessions, redisQ, userQ, calls,
                   sess, cyc, media, reddit, effects, deductions, now,
                   batchCall, premiumKeys, commands>>

\* The orders in which `newItems` can hold the locators of a page.
Orders(S) ==
    {q \in [1..Cardinality(S) -> S] : \A x \in S : \E i \in DOMAIN q : q[i] = x}

\* A page request answers while the selection awaits: the chain of
\* fetchNextRedditPage, `this.redditPostsPool.push(...newItems)` included;
\* the answer to the awaited request resumes the selection with
\* `attempts = 0`.
SelectPageAnswered(p, result) ==
    /\ selectCall.pc = "fetch"
    /\ p \in selectCall.r.pending
    /\ result \in GetSubredditTopPosts(p.after)
    /\ \E newItems \in Orders(result.items) :
           selectCall' = [selectCall EXCEPT
               !.r = [RedditPageAnswered(@, selectCall.isActive, p.sub, result)
                         EXCEPT !.pending = @ \ {p}],
               !.redditPostsPool =
                   IF selectCall.isActive /\ result.ok /\ result.hasPosts
                   THEN @ \o newItems ELSE @,
               !.attempts = IF p.awaiter = "cycle" THEN 0 ELSE @,
               !.pc = IF p.awaiter = "cycle" THEN "retry" ELSE @]
    /\ UNCHANGED <<registry, userData, localActiveSessions, redisQ, userQ, calls,
                   sess, cyc, media, reddit, effects, deductions, now,
                   batchCall, premiumKeys, commands>>

\* endSession runs while the selection awaits (Session.js 222-238).
SelectSessionEnds ==
    /\ selectCall.pc = "fetch"
    /\ selectCall.isActive
    /\ selectCall' = [selectCall EXCEPT
           !.isActive = FALSE, !.postedMediaUrls = {},
           !.redditPostsPool = <<>>,
           !.r = [@ EXCEPT !.pool = {}, !.state = EmptyMap]]
    /\ UNCHANGED <<registry, userData, localActiveSessions, redisQ, userQ, calls,
                   sess, cyc, media, reddit, effects, deductions, now,
                   batchCall, premiumKeys, commands>>

\* ------------------------------------ commands/premium.js: execute
\* What a step of the command leaves alone.
PremiumFrame ==
    UNCHANGED <<registry, userData, localActiveSessions, redisQ, calls, sess,
                cyc, media, reddit, effects, deductions, now, batchCall,
                selectCall, premiumKeys>>

\* The command's next await: its request goes to the shard's connection.
PremiumAwait(c, pc, cmd, val) ==
    /\ commands' = [commands EXCEPT ![c].pc = pc, ![c].replied = FALSE]
    /\ userQ' = [userQ EXCEPT ![commands[c].shard] = Append(@,
                    Cmd(cmd, commands[c].user, val, "command", c))]

\* The command replies to the interaction and returns.
PremiumReply(c, outcome) ==
    /\ commands' = [commands EXCEPT ![c].pc = "done", ![c].outcome = outcome]
    /\ UNCHANGED userQ

\* execute(interaction) up to `await UserData.getUserPremiumStatus(userId)`.
PremiumCommand(c, sh, u, key) ==
    /\ commands[c].pc = "idle"
    /\ \A d \in Commands : d < c => commands[d].pc # "idle"
    /\ commands' = [commands EXCEPT ![c] =
           [IdleCommand EXCEPT !.user = u, !.shard = sh, !.key = key,
                               !.pc = "status"]]
    /\ userQ' = [userQ EXCEPT ![sh] = Append(@,
                    Cmd("uget", u, DefaultUserData, "command", c))]
    /\ PremiumFrame

\* 1. already premium: reply; else `await UserData.isValidPremiumKey(key)`.
PremiumGotStatus(c) ==
    /\ commands[c].pc = "status" /\ commands[c].replied
    /\ IF commands[c].data.isPremium
       THEN PremiumReply(c, "already")
       ELSE PremiumAwait(c, "valid", "sismember", commands[c].key)
    /\ PremiumFrame

\* `const isValid = await UserData.isValidPremiumKey(key)`
PremiumKeyValid(c) == commands[c].member

\* 2. invalid key: reply; else setPremiumStatus(userId, true) up to its
\* read of the record.
PremiumGotValid(c) ==
    /\ commands[c].pc = "valid" /\ commands[c].replied
    /\ IF ~PremiumKeyValid(c)
       THEN PremiumReply(c, "invalid")
       ELSE PremiumAwait(c, "read", "uget", DefaultUserData)
    /\ PremiumFrame

\* setPremiumStatus: `if (data.isPremium !== status)` the record read is
\* written back with the flag set; else invalidatePremiumKey(key) at once.
PremiumGotData(c) ==
    /\ commands[c].pc = "read" /\ commands[c].replied
    /\ IF ~commands[c].data.isPremium
       THEN PremiumAwait(c, "write", "uset",
                [commands[c].data EXCEPT !.isPremium = TRUE])
       ELSE PremiumAwait(c, "remove", "srem", commands[c].key)
    /\ PremiumFrame

\* The write has answered: `await UserData.invalidatePremiumKey(key)`.
PremiumSaved(c) ==
    /\ commands[c].pc = "write" /\ commands[c].replied
    /\ PremiumAwait(c, "remove", "srem", commands[c].key)
    /\ PremiumFrame

\* The removal has answered, whatever it answered: the success reply.
PremiumRemoved(c) ==
    /\ commands[c].pc = "remove" /\ commands[c].replied
    /\ PremiumReply(c, "granted")
    /\ PremiumFrame

\* --------------------------------------------------------- specifications
\* createSession's durationMinutes: null (0) as the start modal passes it,
\* or a number of minutes.
Durations == {0, 1}
InitWithCalls(minutes, bc, sc) ==
    /\ registry = [u \in Users |-> Null]
    /\ userData = [u \in Users |->
           [remainingMinutes |-> minutes, isPremium |-> FALSE]]
    /\ localActiveSessions = [sh \in Shards |-> EmptyMap]
    /\ redisQ = [sh \in Shards |-> <<>>]
    /\ userQ = [sh \in Shards |-> <<>>]
    /\ calls = [c \in Calls |-> IdleCall]
    /\ sess = EmptyMap
    /\ cyc = EmptyMap
    /\ media = EmptyMap
    /\ reddit = EmptyMap
    /\ effects = EmptyMap
    /\ deductions = <<>>
    /\ commands = NoCommands
    /\ premiumKeys = {}
    /\ selectCall = sc
    /\ batchCall = bc
    /\ now = 0

\* No session yet, users with the given minutes left.
InitWithCall(minutes, bc) == InitWithCalls(minutes, bc, NoSelectCall)
InitWith(minutes) == InitWithCall(minutes, NoBatchCall)

\* A session of the given kind and duration that createSession has just
\* returned on shard 0, registered in the store, of a user with the given
\* record.
InitCreatedIn(ty, dur, records, keys) ==
    /\ registry = [u \in Users |-> ShardToString(0)]
    /\ userData = records
    /\ localActiveSessions =
           [sh \in Shards |-> IF sh = 0 THEN MapSet(EmptyMap, "u1", 1)
                              ELSE EmptyMap]
    /\ redisQ = [sh \in Shards |-> <<>>]
    /\ userQ = [sh \in Shards |-> <<>>]
    /\ calls = [c \in Calls |->
           IF c = 1
           THEN [IdleCall EXCEPT !.op = "create", !.pc = "done",
                                 !.step = "set", !.res = "OK",
                                 !.ret = "session", !.type = ty,
                                 !.duration = dur]
           ELSE IdleCall]
    /\ now = 0
    /\ sess = MapSet(EmptyMap, 1, NewSession("u1", 0, ty, dur))
    /\ cyc = MapSet(EmptyMap, 1, IdleCycle)
    /\ media = MapSet(EmptyMap, 1, NewMedia)
    /\ reddit = MapSet(EmptyMap, 1, NewReddit)
    /\ effects = MapSet(EmptyMap, 1, NoEffects)
    /\ deductions = <<>>
    /\ commands = NoCommands
    /\ premiumKeys = keys
    /\ selectCall = NoSelectCall
    /\ batchCall = NoBatchCall

\* The same with no premium keys in the store and the one user's record.
InitCreatedFor(ty, dur, data) ==
    InitCreatedIn(ty, dur, [u \in Users |-> data], {})

\* The same for a user who is not premium and has the given minutes left.
InitCreatedWith(ty, dur, minutes) ==
    InitCreatedFor(ty, dur,
        [DefaultUserData EXCEPT !.remainingMinutes = minutes])

\* The same with no duration and the default quota.
InitCreated(ty) == InitCreatedWith(ty, 0, DEFAULT_STARTING_TIME)

\* --- the coordinator across shards.  The user-data commands that end
\* routines issue stay pending here: nothing of the coordinator reads them.
Init == InitWith(DEFAULT_STARTING_TIME)

Next ==
    \/ \E c \in Calls, sh \in Shards, u \in Users :
            CreateSessionCall(c, sh, u, "fictional", 0)
    \/ \E c \in Calls : CreateSessionGotOwner(c)
    \/ \E c \in Calls : CreateSessionRegistered(c)
    \/ \E c \in Calls, sh \in Shards, u \in Users : EndSessionCall(c, sh, u)
    \/ \E c \in Calls : EndSessionGotOwner(c)
    \/ \E c \in Calls : BroadcastEvalRun(c)
    \/ \E c \in Calls : BroadcastEvalFail(c)
    \/ \E c \in Calls : EndSessionGotResults(c)
    \/ \E c \in Calls : EndSessionCleaned(c)
    \/ \E s \in Calls : SessionTrigger(s)
    \/ \E sh \in Shards : RedisExec(sh)
    \/ \E sh \in Shards : RedisFail(sh)

Spec == Init /\ [][Next]_vars

\* --- a session's first steps and the start of its cycles; the tag source
\* answers with no media here, SpecCycle has the batches
Startup ==
    \/ \E c \in Calls : CreateSessionGotOwner(c)
    \/ \E c \in Calls : CreateSessionRegistered(c)
    \/ \E c \in Calls : EndSessionGotOwner(c)
    \/ \E sh \in Shards : RedisExec(sh)
    \/ \E sh \in Shards : UserDataExec(sh)
    \/ \E sh \in Shards : UserDataFail(sh)
    \/ \E i \in 1..MaxCalls : UpdateUserTimeGot(i)
    \/ \E s \in Calls, ok \in BOOLEAN : SetupCreateDM(s, ok)
    \/ \E s \in Calls, ok \in BOOLEAN : SetupDmChannel(s, ok)
    \/ \E s \in Calls, ok \in BOOLEAN : SetupOpener(s, ok)
    \/ \E s \in Calls, ok \in BOOLEAN : SetupConfirm(s, ok)
    \/ \E s \in Calls : FirstCycleTimerFire(s)
    \/ \E s \in Calls : ActionLoopTimerFire(s)
    \/ \E s \in Calls : CyclePremium(s)
    \/ \E s \in Calls, ok \in BOOLEAN : CycleDmChannel(s, ok)
    \/ \E s \in Calls : CycleUserTime(s)
    \/ \E s \in Calls : CycleNotice(s)
    \/ \E s \in Calls : CycleFetched(s, <<>>)

\* --- duration-less sessions of shard 0 with the default quota, up to the
\* minute after it has run out
InitTime == InitWith(DEFAULT_STARTING_TIME)

NextTime ==
    \/ Startup
    \/ \E u \in Users : CreateSessionCall(1, 0, u, "fictional", 0)
    \/ \E c \in Calls, u \in Users : EndSessionCall(c, 0, u)
    \/ Tick(LastInstant)

SpecTime == InitTime /\ [][NextTime]_vars

\* --- sessions of shard 0 with or without a duration, of a user with one
\* minute left, over the early ticks; ended from either shard.  The store
\* rejects reads and writes but no DEL, and executes what is pending.
InitLive == InitWith(1)

RedisFailNoDel(sh) ==
    /\ redisQ[sh] # <<>>
    /\ Head(redisQ[sh]).cmd # "del"
    /\ RedisFail(sh)

NextLive ==
    \/ Startup
    \/ \E u \in Users, dur \in Durations :
            CreateSessionCall(1, 0, u, "fictional", dur)
    \/ \E c \in Calls, sh \in Shards, u \in Users : EndSessionCall(c, sh, u)
    \/ \E c \in Calls : BroadcastEvalRun(c)
    \/ \E c \in Calls : BroadcastEvalFail(c)
    \/ \E c \in Calls : EndSessionGotResults(c)
    \/ \E c \in Calls : EndSessionCleaned(c)
    \/ \E s \in Calls : SessionEndTimerFire(s)
    \/ \E s \in Calls, ok \in BOOLEAN : EndTimerDmChannel(s, ok)
    \/ \E s \in Calls : EndTimerEnd(s)
    \/ \E s \in Calls : MessageCreateStop(s)
    \/ \E sh \in Shards : RedisFailNoDel(sh)
    \/ Tick(EarlyTicks * TickMs)

SpecLive ==
    InitLive /\ [][NextLive]_vars /\ \A sh \in Shards : WF_vars(RedisExec(sh))

\* --- the coordinator with a store that executes what it is sent and an
\* event loop that runs the continuation of an answered broadcastEval: the
\* steps of Spec, no DEL rejected, under weak fairness of the store and of
\* the requester's continuation.
NextRemote ==
    \/ \E c \in Calls, sh \in Shards, u \in Users :
            CreateSessionCall(c, sh, u, "fictional", 0)
    \/ \E c \in Calls : CreateSessionGotOwner(c)
    \/ \E c \in Calls : CreateSessionRegistered(c)
    \/ \E c \in Calls, sh \in Shards, u \in Users : EndSessionCall(c, sh, u)
    \/ \E c \in Calls : EndSessionGotOwner(c)
    \/ \E c \in Calls : BroadcastEvalRun(c)
    \/ \E c \in Calls : BroadcastEvalFail(c)
    \/ \E c \in Calls : EndSessionGotResults(c)
    \/ \E c \in Calls : EndSessionCleaned(c)
    \/ \E s \in Calls : SessionTrigger(s)
    \/ \E sh \in Shards : RedisExec(sh)
    \/ \E sh \in Shards : RedisFailNoDel(sh)

SpecRemote ==
    /\ Init /\ [][NextRemote]_vars
    /\ \A sh \in Shards : WF_vars(RedisExec(sh))
    /\ \A c \in Calls : WF_vars(EndSessionGotResults(c))

\* --- the shutdown of a shard.  Every call of createSession has returned
\* a Session on shard 0, each for a user of its own; the Sessions go
\* through their set-up and may end on their own before the shutdown.
UserNames == <<"u1", "u2", "u3", "u4">>
InitShutdown ==
    /\ registry = [u \in {UserNames[c] : c \in Calls} |-> ShardToString(0)]
    /\ userData = [u \in {UserNames[c] : c \in Calls} |-> DefaultUserData]
    /\ localActiveSessions =
           [sh \in Shards |->
               IF sh = 0 THEN [u \in {UserNames[c] : c \in Calls} |->
                                 CHOOSE c \in Calls : UserNames[c] = u]
               ELSE EmptyMap]
    /\ redisQ = [sh \in Shards |-> <<>>]
    /\ userQ = [sh \in Shards |-> <<>>]
    /\ calls = [c \in Calls |->
           [IdleCall EXCEPT !.op = "create", !.user = UserNames[c],
                            !.pc = "done", !.step = "set", !.res = "OK",
                            !.ret = "session", !.type = "fictional"]]
    /\ now = 0
    /\ sess = [c \in Calls |-> NewSession(UserNames[c], 0, "fictional", 0)]
    /\ cyc = [c \in Calls |-> IdleCycle]
    /\ media = [c \in Calls |-> NewMedia]
    /\ reddit = [c \in Calls |-> NewReddit]
    /\ effects = [c \in Calls |-> NoEffects]
    /\ deductions = <<>>
    /\ commands = NoCommands
    /\ premiumKeys = {}
    /\ selectCall = NoSelectCall
    /\ batchCall = NoBatchCall

NextShutdown ==
    \/ \E s \in Calls, ok \in BOOLEAN : SetupCreateDM(s, ok)
    \/ \E s \in Calls, ok \in BOOLEAN : SetupDmChannel(s, ok)
    \/ \E s \in Calls, ok \in BOOLEAN : SetupOpener(s, ok)
    \/ \E s \in Calls, ok \in BOOLEAN : SetupConfirm(s, ok)
    \/ \E s \in Calls : SessionTrigger(s)
    \/ \E sh \in Shards : EndAllLocalSessions(sh)
    \/ \E sh \in Shards : RedisExec(sh)

SpecShutdown == InitShutdown /\ [][NextShutdown]_vars

\* --- the shutdown of a shard on a signal, with time passing before it
\* and a store that executes what has reached it.
InitSignal == InitShutdown

NextSignal ==
    \/ \E s \in Calls, ok \in BOOLEAN : SetupCreateDM(s, ok)
    \/ \E s \in Calls, ok \in BOOLEAN : SetupDmChannel(s, ok)
    \/ \E s \in Calls : SessionTrigger(s)
    \/ \E sh \in Shards : SignalShutdown(sh)
    \/ \E sh \in Shards : RedisExec(sh)
    \/ \E sh \in Shards : UserDataExec(sh)
    \/ \E i \in 1..MaxCalls : UpdateUserTimeGot(i)
    \/ Tick(MinuteMs)

SpecSignal == InitSignal /\ [][NextSignal]_vars

\* --- the action cycle of a fictional character, with commentaries that
\* fit an embed
InitCycle == InitCreated("fictional")

NextCycle ==
    \/ \E s \in Calls, ok \in BOOLEAN : SetupCreateDM(s, ok)
    \/ \E s \in Calls, ok \in BOOLEAN : SetupDmChannel(s, ok)
    \/ \E s \in Calls, ok \in BOOLEAN : SetupOpener(s, ok)
    \/ \E s \in Calls, ok \in BOOLEAN : SetupConfirm(s, ok)
    \/ \E s \in Calls : FirstCycleTimerFire(s)
    \/ \E s \in Calls : ActionLoopTimerFire(s)
    \/ \E s \in Calls : CyclePremium(s)
    \/ \E s \in Calls, ok \in BOOLEAN : CycleDmChannel(s, ok)
    \/ \E s \in Calls : CycleUserTime(s)
    \/ \E s \in Calls, batch \in SeqsOf(Urls, 0..COMMENTARY_BATCH_SIZE) :
            CycleFetched(s, batch)
    \/ \E s \in Calls, r \in BatchCommentaryOver(CommentaryStrings) :
            LlmReply(s, r)
    \/ \E s \in Calls : CycleCommentary(s)
    \/ \E s \in Calls, ok \in BOOLEAN : CycleCommentaryEdited(s, ok)
    \/ \E s \in Calls, ok \in BOOLEAN : CycleCommentarySent(s, ok)
    \/ \E s \in Calls, ok \in BOOLEAN : CycleMediaEdited(s, ok)
    \/ \E s \in Calls, ok \in BOOLEAN : CycleMediaSent(s, ok)
    \/ \E c \in Calls, u \in Users : EndSessionCall(c, 0, u)
    \/ \E c \in Calls : EndSessionGotOwner(c)
    \/ \E sh \in Shards : RedisExec(sh)
    \/ \E sh \in Shards : UserDataExec(sh)
    \/ \E i \in 1..MaxCalls : UpdateUserTimeGot(i)

SpecCycle == InitCycle /\ [][NextCycle]_vars

\* --- the paged fetch of a real character
InitReddit == InitCreated("real")

NextReddit ==
    \/ \E s \in Calls, ok \in BOOLEAN : SetupCreateDM(s, ok)
    \/ \E s \in Calls, ok \in BOOLEAN : SetupDmChannel(s, ok)
    \/ \E s \in Calls, ok \in BOOLEAN : SetupOpener(s, ok)
    \/ \E s \in Calls, ok \in BOOLEAN : SetupConfirm(s, ok)
    \/ \E s \in DOMAIN reddit : \E p \in reddit[s].pending :
            \E result \in GetSubredditTopPosts(p.after) :
                RedditReply(s, p, result)
    \/ \E s \in Calls : FirstCycleTimerFire(s)
    \/ \E s \in Calls : ActionLoopTimerFire(s)
    \/ \E s \in Calls : CyclePremium(s)
    \/ \E s \in Calls, ok \in BOOLEAN : CycleDmChannel(s, ok)
    \/ \E s \in Calls : CycleUserTimeReal(s)
    \/ \E s \in Calls : CycleSyncFetched(s)
    \/ \E s \in Calls, k \in CommentaryStrings \cup {Null} :
            CycleMediaCommentary(s, k)
    \/ \E s \in Calls, ok \in BOOLEAN : CycleCommentaryEdited(s, ok)
    \/ \E s \in Calls, ok \in BOOLEAN : CycleCommentarySent(s, ok)
    \/ \E s \in Calls, ok \in BOOLEAN : CycleMediaEdited(s, ok)
    \/ \E s \in Calls, ok \in BOOLEAN : CycleMediaSent(s, ok)
    \/ \E sh \in Shards : RedisExec(sh)
    \/ \E sh \in Shards : UserDataExec(sh)

SpecReddit == InitReddit /\ [][NextReddit]_vars

\* --- the session-start modal: submits for any user on any shard, the
\* coordinated end, and a registry store that answers or raises
InitStart == Init

NextStart ==
    \/ \E c \in Calls, sh \in Shards, u \in Users : SessionStartModal(c, sh, u)
    \/ \E c \in Calls : SessionStartGotExists(c)
    \/ \E c \in Calls : CreateSessionGotOwner(c)
    \/ \E c \in Calls : CreateSessionRegistered(c)
    \/ \E c \in Calls, sh \in Shards, u \in Users : EndSessionCall(c, sh, u)
    \/ \E c \in Calls : EndSessionGotOwner(c)
    \/ \E c \in Calls : BroadcastEvalRun(c)
    \/ \E c \in Calls : BroadcastEvalFail(c)
    \/ \E c \in Calls : EndSessionGotResults(c)
    \/ \E c \in Calls : EndSessionCleaned(c)
    \/ \E sh \in Shards : RedisExec(sh)
    \/ \E sh \in Shards : RedisFail(sh)

SpecStart == InitStart /\ [][NextStart]_vars

\* --- /premium commands of two users on any shard with one unused key in
\* the store, beside a session of the first user that ends within its
\* first minute; the store answers every command.
InitPremium ==
    InitCreatedIn("fictional", 0, [u \in Accounts |-> DefaultUserData],
                  {"k1"})

NextPremium ==
    \/ \E c \in Commands, sh \in Shards, u \in Accounts, key \in PresentedKeys :
            PremiumCommand(c, sh, u, key)
    \/ \E c \in Commands : PremiumGotStatus(c)
    \/ \E c \in Commands : PremiumGotValid(c)
    \/ \E c \in Commands : PremiumGotData(c)
    \/ \E c \in Commands : PremiumSaved(c)
    \/ \E c \in Commands : PremiumRemoved(c)
    \/ \E s \in Calls : SessionTrigger(s)
    \/ \E sh \in Shards : RedisExec(sh)
    \/ \E sh \in Shards : UserDataExec(sh)
    \/ \E i \in 1..MaxCalls : UpdateUserTimeGot(i)
    \/ Tick(TickMs)

SpecPremium == InitPremium /\ [][NextPremium]_vars

\* --- content sources and commentary generation that fail: one session of
\* a real or of a fictional character, batches of at most one item, page
\* requests and commentary calls that fail or answer; the session ends when
\* its DM channel cannot be fetched.
InitFailure == \E ty \in {"real", "fictional"} : InitCreated(ty)

FailureBatches == {<<>>, <<"a">>}
FailureAnswers ==
    {r \in GenerateBatchCommentary : r.commentaries \in {<<>>, <<"hi">>}}

NextFailure ==
    \/ \E s \in Calls, ok \in BOOLEAN : SetupCreateDM(s, ok)
    \/ \E s \in Calls, ok \in BOOLEAN : SetupDmChannel(s, ok)
    \/ \E s \in Calls, ok \in BOOLEAN : SetupOpener(s, ok)
    \/ \E s \in Calls, ok \in BOOLEAN : SetupConfirm(s, ok)
    \/ \E s \in DOMAIN reddit : \E p \in reddit[s].pending :
            \E result \in GetSubredditTopPosts(p.after) :
                RedditReply(s, p, result)
    \/ \E s \in Calls : FirstCycleTimerFire(s)
    \/ \E s \in Calls : ActionLoopTimerFire(s)
    \/ \E s \in Calls : CyclePremium(s)
    \/ \E s \in Calls, ok \in BOOLEAN : CycleDmChannel(s, ok)
    \/ \E s \in Calls : CycleUserTime(s)
    \/ \E s \in Calls : CycleUserTimeReal(s)
    \/ \E s \in Calls : CycleSyncFetched(s)
    \/ \E s \in Calls, k \in {"hi", Null} : CycleMediaCommentary(s, k)
    \/ \E s \in Calls, batch \in FailureBatches : CycleFetched(s, batch)
    \/ \E s \in Calls, r \in FailureAnswers : LlmReply(s, r)
    \/ \E s \in Calls : CycleCommentary(s)
    \/ \E s \in Calls, ok \in BOOLEAN : CycleCommentaryEdited(s, ok)
    \/ \E s \in Calls, ok \in BOOLEAN : CycleCommentarySent(s, ok)
    \/ \E s \in Calls, ok \in BOOLEAN : CycleMediaEdited(s, ok)
    \/ \E s \in Calls, ok \in BOOLEAN : CycleMediaSent(s, ok)
    \/ \E sh \in Shards : RedisExec(sh)
    \/ \E sh \in Shards : UserDataExec(sh)

SpecFailure == InitFailure /\ [][NextFailure]_vars

\* --- the timers of one session of shard 0, with or without a duration,
\* of a user with one minute left, over the first minute: set-up, cycles
\* that skip, deliver or throw, the duration timer, the quota check, the
\* end button and the trigger button.  Batches have up to two items; the
\* write of the deduction stays pending, no timer depends on it.
InitTimers == \E dur \in Durations : InitCreatedWith("fictional", dur, 1)

TimerBatches == {<<>>, <<"a">>, <<"a", "b">>}
TimerAnswers ==
    {r \in GenerateBatchCommentary :
        r.commentaries \in SeqsOf({"hi", TooLong}, 0..2)}

NextTimers ==
    \/ \E s \in Calls, ok \in BOOLEAN : SetupCreateDM(s, ok)
    \/ \E s \in Calls, ok \in BOOLEAN : SetupDmChannel(s, ok)
    \/ \E s \in Calls, ok \in BOOLEAN : SetupOpener(s, ok)
    \/ \E s \in Calls, ok \in BOOLEAN : SetupConfirm(s, ok)
    \/ \E s \in Calls : FirstCycleTimerFire(s)
    \/ \E s \in Calls : ActionLoopTimerFire(s)
    \/ \E s \in Calls : BackoffTimerFire(s)
    \/ \E s \in Calls : SessionEndTimerFire(s)
    \/ \E s \in Calls, ok \in BOOLEAN : EndTimerDmChannel(s, ok)
    \/ \E s \in Calls : EndTimerEnd(s)
    \/ \E s \in Calls : CyclePremium(s)
    \/ \E s \in Calls, ok \in BOOLEAN : CycleDmChannel(s, ok)
    \/ \E s \in Calls : CycleUserTime(s)
    \/ \E s \in Calls : CycleNotice(s)
    \/ \E s \in Calls, batch \in TimerBatches : CycleFetched(s, batch)
    \/ \E s \in Calls, r \in TimerAnswers : LlmReply(s, r)
    \/ \E s \in Calls : CycleCommentary(s)
    \/ \E s \in Calls, ok \in BOOLEAN : CycleCommentaryEdited(s, ok)
    \/ \E s \in Calls, ok \in BOOLEAN : CycleCommentarySent(s, ok)
    \/ \E s \in Calls, ok \in BOOLEAN : CycleMediaEdited(s, ok)
    \/ \E s \in Calls, ok \in BOOLEAN : CycleMediaSent(s, ok)
    \/ \E s \in Calls : RecordTrigger(s)
    \/ \E c \in Calls, u \in Users : EndSessionCall(c, 0, u)
    \/ \E c \in Calls : EndSessionGotOwner(c)
    \/ \E sh \in Shards : RedisExec(sh)
    \/ \E sh \in Shards : UserDataExec(sh)
    \/ Tick(MinuteMs)

SpecTimers == InitTimers /\ [][NextTimers]_vars

\* --- a session left to itself, with or without a duration, of a user with
\* one minute left: timers fire, the clock advances, the store and every
\* external call answer; refills come back empty or not, commentary calls
\* fail or answer, deliveries fail or succeed.
InitEnds == InitTimers

NextEnds ==
    \/ \E s \in Calls, ok \in BOOLEAN : SetupCreateDM(s, ok)
    \/ \E s \in Calls, ok \in BOOLEAN : SetupDmChannel(s, ok)
    \/ \E s \in Calls, ok \in BOOLEAN : SetupOpener(s, ok)
    \/ \E s \in Calls, ok \in BOOLEAN : SetupConfirm(s, ok)
    \/ \E s \in Calls : FirstCycleTimerFire(s)
    \/ \E s \in Calls : ActionLoopTimerFire(s)
    \/ \E s \in Calls : BackoffTimerFire(s)
    \/ \E s \in Calls : SessionEndTimerFire(s)
    \/ \E s \in Calls, ok \in BOOLEAN : EndTimerDmChannel(s, ok)
    \/ \E s \in Calls : EndTimerEnd(s)
    \/ \E s \in Calls : CyclePremium(s)
    \/ \E s \in Calls, ok \in BOOLEAN : CycleDmChannel(s, ok)
    \/ \E s \in Calls : CycleUserTime(s)
    \/ \E s \in Calls : CycleNotice(s)
    \/ \E s \in Calls, batch \in TimerBatches : CycleFetched(s, batch)
    \/ \E s \in Calls, r \in TimerAnswers : LlmReply(s, r)
    \/ \E s \in Calls : CycleCommentary(s)
    \/ \E s \in Calls, ok \in BOOLEAN : CycleCommentaryEdited(s, ok)
    \/ \E s \in Calls, ok \in BOOLEAN : CycleCommentarySent(s, ok)
    \/ \E s \in Calls, ok \in BOOLEAN : CycleMediaEdited(s, ok)
    \/ \E s \in Calls, ok \in BOOLEAN : CycleMediaSent(s, ok)
    \/ \E sh \in Shards : RedisExec(sh)
    \/ \E sh \in Shards : UserDataExec(sh)
    \/ Tick(MinuteMs)

\* Timers fire, the clock advances, and what is awaited answers.
EndsFairness ==
    /\ WF_vars(Tick(MinuteMs))
    /\ \A sh \in Shards : WF_vars(RedisExec(sh)) /\ WF_vars(UserDataExec(sh))
    /\ \A s \in Calls :
        /\ WF_vars(\E ok \in BOOLEAN : SetupCreateDM(s, ok))
        /\ WF_vars(\E ok \in BOOLEAN : SetupDmChannel(s, ok))
        /\ WF_vars(\E ok \in BOOLEAN : SetupOpener(s, ok))
        /\ WF_vars(\E ok \in BOOLEAN : SetupConfirm(s, ok))
        /\ WF_vars(FirstCycleTimerFire(s))
        /\ WF_vars(ActionLoopTimerFire(s))
        /\ WF_vars(BackoffTimerFire(s))
        /\ WF_vars(SessionEndTimerFire(s))
        /\ WF_vars(\E ok \in BOOLEAN : EndTimerDmChannel(s, ok))
        /\ WF_vars(EndTimerEnd(s))
        /\ WF_vars(CyclePremium(s))
        /\ WF_vars(\E ok \in BOOLEAN : CycleDmChannel(s, ok))
        /\ WF_vars(CycleUserTime(s))
        /\ WF_vars(CycleNotice(s))
        /\ WF_vars(\E batch \in TimerBatches : CycleFetched(s, batch))
        /\ WF_vars(\E r \in TimerAnswers : LlmReply(s, r))
        /\ WF_vars(CycleCommentary(s))
        /\ WF_vars(\E ok \in BOOLEAN : CycleCommentaryEdited(s, ok))
        /\ WF_vars(\E ok \in BOOLEAN : CycleCommentarySent(s, ok))
        /\ WF_vars(\E ok \in BOOLEAN : CycleMediaEdited(s, ok))
        /\ WF_vars(\E ok \in BOOLEAN : CycleMediaSent(s, ok))

SpecEnds == InitEnds /\ [][NextEnds]_vars /\ EndsFairness

\* --- the profile summary of a session's end: a user who may be premium,
\* cycles that deliver, the trigger button, the end button, and a store
\* that answers or rejects.
InitSummary ==
    \E premium \in BOOLEAN :
        InitCreatedFor("fictional", 0,
            [DefaultUserData EXCEPT !.isPremium = premium])

SummaryBatches == {<<>>, <<"a">>, <<"a", "b">>}
SummaryAnswers ==
    {r \in GenerateBatchCommentary : r.commentaries \in SeqsOf({"hi"}, 0..2)}

NextSummary ==
    \/ \E s \in Calls, ok \in BOOLEAN : SetupCreateDM(s, ok)
    \/ \E s \in Calls, ok \in BOOLEAN : SetupDmChannel(s, ok)
    \/ \E s \in Calls, ok \in BOOLEAN : SetupOpener(s, ok)
    \/ \E s \in Calls, ok \in BOOLEAN : SetupConfirm(s, ok)
    \/ \E s \in Calls : FirstCycleTimerFire(s)
    \/ \E s \in Calls : ActionLoopTimerFire(s)
    \/ \E s \in Calls : CyclePremium(s)
    \/ \E s \in Calls, ok \in BOOLEAN : CycleDmChannel(s, ok)
    \/ \E s \in Calls : CycleUserTime(s)
    \/ \E s \in Calls, batch \in SummaryBatches : CycleFetched(s, batch)
    \/ \E s \in Calls, r \in SummaryAnswers : LlmReply(s, r)
    \/ \E s \in Calls : CycleCommentary(s)
    \/ \E s \in Calls, ok \in BOOLEAN : CycleCommentaryEdited(s, ok)
    \/ \E s \in Calls, ok \in BOOLEAN : CycleCommentarySent(s, ok)
    \/ \E s \in Calls, ok \in BOOLEAN : CycleMediaEdited(s, ok)
    \/ \E s \in Calls, ok \in BOOLEAN : CycleMediaSent(s, ok)
    \/ \E s \in Calls : RecordTrigger(s)
    \/ \E c \in Calls, u \in Users : EndSessionCall(c, 0, u)
    \/ \E c \in Calls : EndSessionGotOwner(c)
    \/ \E sh \in Shards : RedisExec(sh)
    \/ \E sh \in Shards : UserDataExec(sh)
    \/ \E sh \in Shards : UserDataFail(sh)

SpecSummary == InitSummary /\ [][NextSummary]_vars

\* --- one call of fetchMediaBatch, over posted sets, batch sizes, attempt
\* limits and the answers of the tag source
InitFetch ==
    \E posted \in SUBSET Urls, batchSize \in 0..COMMENTARY_BATCH_SIZE,
       maxPageAttempts \in 1..MaxPageAttempts :
        InitWithCall(DEFAULT_STARTING_TIME,
            NewBatchCall(posted, batchSize, maxPageAttempts))

NextFetch ==
    \/ BatchLoop
    \/ \E answer \in SearchPosts : BatchPage(answer)

SpecFetch == InitFetch /\ [][NextFetch]_vars

\* --- one selection from the pool of a real character, over pools, posted
\* sets, pagination states and page answers
\* A subreddit at the start of a selection: idle, with a background fetch
\* in flight, or exhausted.
SubredditStates ==
    {[after |-> 0, isFetching |-> f, allFetched |-> x, currentPage |-> 0] :
        f \in BOOLEAN, x \in BOOLEAN} \
    {[after |-> 0, isFetching |-> TRUE, allFetched |-> TRUE, currentPage |-> 0]}

InitSelect ==
    \E pool \in SeqsOf(Urls, 0..MaxPool), posted \in SUBSET Urls,
       state \in [{SourceList[i] : i \in DOMAIN SourceList} -> SubredditStates] :
        InitWithCalls(DEFAULT_STARTING_TIME, NoBatchCall,
            NewSelectCall(pool, posted,
                [NewReddit EXCEPT
                    !.state = state,
                    !.pool = {pool[i] : i \in DOMAIN pool},
                    !.pending = {[sub |-> sub, after |-> 0, awaiter |-> "none"] :
                                    sub \in {x \in DOMAIN state : state[x].isFetching}}]))

NextSelect ==
    \/ SelectPick
    \/ SelectLoopExit
    \/ \E p \in selectCall.r.pending :
           \E result \in GetSubredditTopPosts(p.after) :
               SelectPageAnswered(p, result)
    \/ SelectSessionEnds

\* Every statement of the selection is executed and every page request is
\* answered.
SpecSelect == InitSelect /\ [][NextSelect]_vars /\ WF_vars(NextSelect)

\* =================================================================== claims
\* The Sessions that some shard's local Map holds for user u and that are
\* active.
ActiveLocal(u) ==
    {s \in DOMAIN sess :
        /\ sess[s].userId = u /\ sess[s].isActive
        /\ \E sh \in Shards : /\ MapHas(localActiveSessions[sh], u)
                               /\ localActiveSessions[sh][u] = s}
\* The createSession calls for user u that returned a Session.
Granted(u) ==
    {c \in Calls : calls[c].op = "create" /\ calls[c].user = u
                    /\ calls[c].ret = "session"}

\* C1: for every user, at most one active Session exists across all shards'
\* local maps at any instant, and of the createSession attempts for one
\* user exactly one returns a Session.  Stated on the Sessions createSession
\* has already returned, so that a speculative Session awaiting its
\* registration does not count.
C1_AtMostOneActiveSession ==
    \A u \in Users :
        Cardinality(ActiveLocal(u) \cap Granted(u)) <= 1

\* C2: registration never overwrites an existing owner: an entry naming
\* shard A keeps naming A until it is removed.
C2_RegistrationNeverOverwrites ==
    [][\A u \in Users :
          (registry[u] # Null /\ registry'[u] # Null)
              => registry'[u] = registry[u]]_vars

\* C3: whenever a shard holds an active Session that createSession has
\* returned, the registry holds an entry for its user naming that shard.
C3_RegistryNamesActiveOwner ==
    \A s \in DOMAIN sess :
        (sess[s].isActive /\ calls[s].ret = "session")
            => registry[sess[s].userId] = ShardToString(sess[s].shard)

\* The deductions the end routine of Session s has issued.
DeductionsOf(s) == {i \in DOMAIN deductions : deductions[i].sid = s}
\* The reasons endSession is invoked with.
EndReasons ==
    {"Redis Registration Failed", "Requested by Manager",
     "Remote End Request", "DM Initialization Failed",
     "DM Channel Fetch Failed", "Opening Message Failed",
     "Ran out of time", "Duration Reached"}

\* C4: ending a session is idempotent.  However often endSession is
\* invoked, the routine issues one quota deduction, cancels the timers
\* once, triggers the profile summary once and requests the registry
\* removal once; and an invocation on a session that has ended leaves the
\* session's state, its queues and sets, the pending store commands and
\* everything issued so far as it was.
C4_EndSessionIdempotent ==
    [][/\ \A s \in DOMAIN sess' :
            /\ Cardinality({i \in DOMAIN deductions' :
                               deductions'[i].sid = s}) <= 1
            /\ effects'[s].summary <= 1
            /\ effects'[s].delReq <= 1
            /\ effects'[s].timerCancel <= 1
            /\ effects'[s].invoked >= 1 =>
                    /\ ~sess'[s].isActive
                    /\ Cardinality({i \in DOMAIN deductions' :
                                       deductions'[i].sid = s}) = 1
                    /\ effects'[s].summary = 1
                    /\ effects'[s].delReq = 1
                    /\ effects'[s].timerCancel = 1
       /\ \A s \in DOMAIN sess :
            (effects[s].invoked = 1 /\ effects'[s].invoked = 2) =>
                /\ sess'[s].isActive = sess[s].isActive
                /\ sess'[s].endReason = sess[s].endReason
                /\ sess'[s].actionLoopTimerId = sess[s].actionLoopTimerId
                /\ sess'[s].sessionEndTimerId = sess[s].sessionEndTimerId
                /\ media'[s] = media[s]
                /\ reddit'[s] = reddit[s]
                /\ effects' = [effects EXCEPT ![s].invoked = 2]
                /\ UNCHANGED <<deductions, localActiveSessions, redisQ,
                               userQ, registry, userData>>]_vars

\* endSession has been invoked more than once on a session, with one
\* deduction and one removal request issued.
C4_Witness ==
    \E s \in DOMAIN sess :
        /\ effects[s].invoked = 2
        /\ Cardinality(DeductionsOf(s)) = 1
        /\ effects[s].delReq = 1
        /\ effects[s].timerCancel = 1

\* C5: every termination trigger of an active session (the quota check at
\* a cycle's start, the user's stop command, the duration timer, a failure
\* of the DM channel or of the opening message, the coordinator's local or
\* remote end request) runs the same end routine: once the trigger's
\* handler has run the session is ended, the deduction of its elapsed time
\* rounded up to minutes has been issued for its user and the registry
\* removal has been requested.
C5_Ended(s) ==
    /\ ~sess[s].isActive
    /\ effects[s].invoked >= 1
    /\ effects[s].delReq = 1
    /\ sess[s].endReason \in EndReasons
    /\ \E i \in DeductionsOf(s) :
            /\ deductions[i].user = sess[s].userId
            /\ deductions[i].start = sess[s].startTime
            /\ deductions[i].n * MinuteMs >=
                    deductions[i].at - deductions[i].start
            /\ (deductions[i].n - 1) * MinuteMs <
                    deductions[i].at - deductions[i].start
C5_EveryTriggerEnds ==
    \A s \in DOMAIN sess :
        (effects[s].invoked >= 1 \/ effects[s].stopCommand) => C5_Ended(s)
\* Without the stop command every trigger does end the session so, and
\* the store, executing what it is sent, removes the registry entry.
C5_OtherTriggersEnd ==
    /\ [](\A s \in DOMAIN sess :
             (effects[s].invoked >= 1 \/ ~sess[s].isActive) => C5_Ended(s))
    /\ \A u \in Users :
           (\E s \in DOMAIN sess : sess[s].userId = u /\ ~sess[s].isActive)
               ~> (registry[u] = Null)

\* C6 as stated: whenever no cycle stands between its two shift() calls,
\* which is every state as both run in one step, the media queue and the
\* commentary queue have equal length.
C6_QueuesEqualLength ==
    \A s \in DOMAIN sess :
        Len(media[s].mediaBatchQueue) = Len(media[s].commentaryQueue)

\* C6: the media queue and the commentary queue have equal length except
\* while a cycle, having installed the batch it fetched, awaits the
\* commentaries for it.  A refill ends with N media items and exactly N
\* commentaries installed (the first pair dequeued in the same step) or
\* with both queues empty, and every dequeue removes the head of both
\* queues in the same step and hands that pair on.
C6_QueuesInLockstep ==
    /\ [](\A s \in DOMAIN sess :
             cyc[s].pc # "llm" =>
                 Len(media[s].mediaBatchQueue) =
                     Len(media[s].commentaryQueue))
    /\ [][\A s \in DOMAIN sess :
            LET mq == media[s].mediaBatchQueue
                cq == media[s].commentaryQueue
                mq1 == media'[s].mediaBatchQueue
                cq1 == media'[s].commentaryQueue
                handed(m, k) ==
                    \/ cyc'[s].pc = "idle"
                    \/ /\ cyc'[s].mediaToSend = m
                       /\ cyc'[s].commentaryToSend = k
            IN  (mq1 # mq \/ cq1 # cq) =>
                  \/ \* the fetched batch is installed, commentary awaited
                     /\ cyc[s].pc = "fetch" /\ cyc'[s].pc = "llm"
                     /\ mq = <<>> /\ cq = <<>> /\ cq1 = <<>>
                     /\ Len(mq1) \in 1..COMMENTARY_BATCH_SIZE
                  \/ \* the refill completes and its first pair is dequeued
                     /\ cyc[s].pc = "llm" /\ cyc'[s].pc # "llm"
                     /\ mq # <<>>
                     /\ Len(cyc[s].llm.commentaries) = Len(mq)
                     /\ mq1 = Tail(mq)
                     /\ cq1 = Tail(cyc[s].llm.commentaries)
                     /\ handed(Head(mq), Head(cyc[s].llm.commentaries))
                  \/ \* a queued pair is dequeued
                     /\ cyc[s].pc = "time"
                     /\ mq # <<>> /\ cq # <<>>
                     /\ mq1 = Tail(mq) /\ cq1 = Tail(cq)
                     /\ handed(Head(mq), Head(cq))
                  \/ \* discarded, cleared or ended
                     /\ mq1 = <<>> /\ cq1 = <<>>]_vars

\* A refill has installed a whole batch with its commentaries, and both
\* queues hold the two pairs that remain after the first dequeue.
C6_Witness ==
    \E s \in DOMAIN sess :
        /\ cyc[s].pc \in {"cSend", "cEdit"}
        /\ Len(media[s].mediaBatchQueue) = COMMENTARY_BATCH_SIZE - 1
        /\ Len(media[s].commentaryQueue) = COMMENTARY_BATCH_SIZE - 1

\* C7: when the commentary service answers a fetched batch of N items with
\* a number of commentaries other than N, or with no parsable result, the
\* batch is discarded: both queues are empty afterwards, the cycle ends
\* with nothing delivered (no message sent or edited, the posted set as it
\* was), the next cycle of the session, if it has not been ended meanwhile,
\* is scheduled at the fixed interval, and that cycle, unless the quota has
\* run out, starts a fresh fetch with empty queues.
C7_MismatchDiscardsBatch ==
    [][\A s \in DOMAIN sess :
          /\ ( /\ cyc[s].pc = "llm" /\ cyc'[s].pc # "llm"
               /\ media[s].mediaBatchQueue # <<>>
               /\ ~( /\ cyc[s].llm.ok
                     /\ Len(cyc[s].llm.commentaries) =
                            Len(media[s].mediaBatchQueue)) )
             => /\ media'[s].mediaBatchQueue = <<>>
                /\ media'[s].commentaryQueue = <<>>
                /\ media'[s].discarded
                /\ media'[s].postedMediaUrls = media[s].postedMediaUrls
                /\ media'[s].lastMessageId = media[s].lastMessageId
                /\ media'[s].currentMediaMessageId =
                       media[s].currentMediaMessageId
                /\ media'[s].currentCommentaryMessageId =
                       media[s].currentCommentaryMessageId
                /\ cyc'[s].pc = "idle"
                /\ sess[s].isActive =>
                       sess'[s].actionLoopTimerId = ACTION_INTERVAL_MS
          /\ ( /\ media[s].discarded
               /\ cyc[s].pc = "time" /\ cyc'[s].pc # "time" )
             => /\ cyc'[s].pc \in {"fetch", "notice"}
                /\ media'[s].mediaBatchQueue = <<>>
                /\ media'[s].commentaryQueue = <<>>
                /\ cyc'[s].pc = "fetch" => ~media'[s].discarded]_vars

\* A batch has been discarded and the next cycle, 8 seconds later, has
\* come to its queue check.
C7_Witness ==
    \E s \in DOMAIN sess :
        /\ sess[s].isActive
        /\ media[s].discarded
        /\ cyc[s].pc = "time" /\ cyc[s].replied
        /\ media[s].mediaBatchQueue = <<>>
        /\ media[s].commentaryQueue = <<>>

\* C8: every quota deduction the end routine issues has an amount n with
\* 0 <= n <= ceil(elapsed milliseconds since the session's start / 60000):
\* n is 0, or n - 1 whole minutes are less than the time elapsed when
\* end was invoked.
C8_DeductionWithinElapsed ==
    \A i \in DOMAIN deductions :
        /\ deductions[i].n >= 0
        /\ deductions[i].at >= deductions[i].start
        /\ \/ deductions[i].n = 0
           \/ (deductions[i].n - 1) * MinuteMs <
                  deductions[i].at - deductions[i].start

\* A session ended a minute and a half after its start: 2 minutes deducted.
C8_Witness ==
    \E i \in DOMAIN deductions :
        /\ deductions[i].at - deductions[i].start = MinuteMs + TickMs
        /\ deductions[i].n = 2

\* The quota check of C9 with the elapsed time taken to have reached the
\* remaining quota when elapsedMs + slack >= remainingTime minutes: the
\* check ends the cycle with the closing notice exactly then, the notice is
\* followed by the end of the session, the end routine's deduction is the
\* elapsed time rounded up to whole minutes, and once it is written the
\* stored remaining quota is 0.
C9_Reached(c, slack) == c.elapsedMs + slack >= c.remainingTime * MinuteMs
C9_Deducted ==
    \A i \in DOMAIN deductions :
        sess[deductions[i].sid].endReason = "Ran out of time" =>
            /\ deductions[i].n * MinuteMs >=
                   deductions[i].at - deductions[i].start
            /\ (deductions[i].n - 1) * MinuteMs <
                   deductions[i].at - deductions[i].start
            /\ deductions[i].pc = "done" =>
                   userData[deductions[i].user].remainingMinutes <= 0
C9_Check(slack) ==
    \A s \in DOMAIN sess :
        /\ (cyc[s].pc = "time" /\ cyc'[s].pc # "time") =>
               (cyc'[s].pc = "notice" <=> C9_Reached(cyc[s], slack))
        /\ (cyc[s].pc = "notice" /\ cyc'[s].pc # "notice") =>
               /\ ~sess'[s].isActive
               /\ sess[s].isActive =>
                      sess'[s].endReason = "Ran out of time"
        /\ (sess[s].endReason # "Ran out of time"
                /\ sess'[s].endReason = "Ran out of time") =>
               cyc[s].pc = "notice"

\* C9 as stated: a duration-less session of a user with R remaining minutes
\* is ended by the first cycle-start check at which the elapsed wall-time
\* has reached R minutes; the end routine deducts the elapsed time rounded
\* up to whole minutes, and the stored remaining quota is <= 0 afterwards.
C9_EndedWhenQuotaReached == []C9_Deducted /\ [][C9_Check(0)]_vars

\* C9: a duration-less session of a user with R remaining minutes is ended
\* by the first cycle-start check at which the elapsed wall-time rounded up
\* to whole minutes has reached R, that is once more than R - 1 minutes
\* have passed; the end routine deducts the elapsed time rounded up to
\* whole minutes, and the stored remaining quota is 0 once the deduction
\* is written.
C9_EndedWhenRoundedUpReached ==
    []C9_Deducted /\ [][C9_Check(MinuteMs - 1)]_vars

\* 21 minutes deducted from the 20 a user had, for a session the quota
\* check ended between 20 and 21 minutes after its start; 0 are left.
C9_Witness ==
    \E i \in DOMAIN deductions :
        /\ sess[deductions[i].sid].endReason = "Ran out of time"
        /\ sess[deductions[i].sid].durationMinutes = 0
        /\ deductions[i].n = DEFAULT_STARTING_TIME + 1
        /\ deductions[i].data.remainingMinutes = DEFAULT_STARTING_TIME
        /\ deductions[i].pc = "done"
        /\ userData[deductions[i].user].remainingMinutes = 0

C11_InFlight(s, sub) == {p \in reddit[s].pending : p.sub = sub}
\* fetchNextRedditPage on a subreddit that is fetching or exhausted returns
\* with nothing changed, whoever calls it.
C11_RefillIsNoOp ==
    \A s \in DOMAIN reddit : \A sub \in DOMAIN reddit[s].state :
        (reddit[s].state[sub].isFetching \/ reddit[s].state[sub].allFetched)
            => \A awaiter \in {"none", "cycle", "setup"} :
                   FetchNextRedditPage(reddit[s], sess[s].isActive, sub,
                                       awaiter) = reddit[s]
C11_OneInFlight ==
    \A s \in DOMAIN reddit : \A sub \in DOMAIN reddit[s].requests :
        /\ Cardinality(C11_InFlight(s, sub)) <= 1
        /\ (sub \in DOMAIN reddit[s].state /\ C11_InFlight(s, sub) # {})
               => reddit[s].state[sub].isFetching
C11_Step ==
    \A s \in DOMAIN reddit : \A sub \in DOMAIN reddit[s].requests :
        /\ reddit'[s].requests[sub] # reddit[s].requests[sub] =>
               /\ sub \in DOMAIN reddit[s].state =>
                      /\ ~reddit[s].state[sub].isFetching
                      /\ ~reddit[s].state[sub].allFetched
               /\ sub \in DOMAIN reddit'[s].state
               /\ C11_InFlight(s, sub) = {}
               /\ Len(reddit'[s].requests[sub]) =
                      Len(reddit[s].requests[sub]) + 1
        /\ ( /\ sub \in DOMAIN reddit[s].state
             /\ reddit[s].state[sub].allFetched
             /\ sess'[s].isActive )
             => /\ sub \in DOMAIN reddit'[s].state
                /\ reddit'[s].state[sub].allFetched

\* C11: for every subreddit of a session, fetchNextRedditPage is a no-op
\* (no page request, no change of state) while the subreddit is fetching or
\* exhausted; so at most one page request per subreddit is in flight, and
\* once a subreddit is marked allFetched the mark stays for as long as the
\* session is active and no page of that subreddit is requested again.
C11_RefillGuarded ==
    [](C11_RefillIsNoOp /\ C11_OneInFlight) /\ [][C11_Step]_vars

\* The first subreddit is exhausted and the refill has moved on to the
\* second one, whose page request is in flight.
C11_Witness ==
    \E s \in DOMAIN reddit :
        /\ sess[s].isActive
        /\ SourceList[1] \in DOMAIN reddit[s].state
        /\ reddit[s].state[SourceList[1]].allFetched
        /\ C11_InFlight(s, SourceList[2]) # {}
        /\ reddit[s].state[SourceList[2]].isFetching

\* The timeouts of session s that are pending and lead to a cycle: the
\* first-cycle timer, the recurring timer, the backoff timer.
C12_PendingCycleTimers(s) ==
    (IF sess[s].firstCycleTimer # 0 THEN 1 ELSE 0)
    + (IF sess[s].actionLoopTimerId # 0 THEN 1 ELSE 0)
    + (IF sess[s].backoffTimer # 0 THEN 1 ELSE 0)

\* C12: for every session at most one execution of executeNextActionCycle
\* is in flight at any time: no cycle is ever started while another one is
\* in flight, because while a cycle of an active session is in flight no
\* timer that leads to a cycle is pending, and when none is in flight at
\* most one such timer is.
C12_OneCycleInFlight ==
    \A s \in DOMAIN sess :
        /\ ~effects[s].overlapped
        /\ sess[s].isActive =>
               C12_PendingCycleTimers(s)
                   + (IF cyc[s].pc # "idle" THEN 1 ELSE 0) <= 1

\* A second cycle is in flight after the first one has delivered its item.
C12_Witness ==
    \E s \in DOMAIN sess :
        /\ sess[s].isActive
        /\ cyc[s].pc = "premium"
        /\ media[s].postedMediaUrls # {}
        /\ ~effects[s].overlapped

\* startTimers has sent the opening message of session s.
C13_Started(s) == sess[s].setup \in {"confirm", "done"}
\* While a started session is active and no cycle is executing, exactly one
\* timer that leads to its next cycle is pending.
C13_ActiveHasOneTimer ==
    \A s \in DOMAIN sess :
        (C13_Started(s) /\ sess[s].isActive /\ cyc[s].pc = "idle")
            => C12_PendingCycleTimers(s) = 1
\* After the end of a session none of its timers is pending.
C13_EndedHasNoTimer ==
    \A s \in DOMAIN sess :
        ~sess[s].isActive =>
            /\ sess[s].actionLoopTimerId = 0
            /\ sess[s].firstCycleTimer = 0
            /\ sess[s].backoffTimer = 0
            /\ sess[s].sessionEndTimerId = 0

\* C13: while a started session is active and no cycle is executing,
\* exactly one action timer is pending for it (the first-cycle timer and
\* the backoff timer counted as the action timer's stand-ins); after the
\* session has ended no timer of it (recurring, first-cycle, backoff,
\* duration) remains pending or is created.
C13_TimersFollowActive == C13_ActiveHasOneTimer /\ C13_EndedHasNoTimer

\* C14: Ended is terminal.  A Session object stays, and once its isActive
\* is false it is false after every step: timer fires, late completions of
\* a cycle or of the set-up, presses of the trigger button, end requests.
C14_EndedIsTerminal ==
    [][\A s \in DOMAIN sess :
          /\ s \in DOMAIN sess'
          /\ ~sess[s].isActive => ~sess'[s].isActive]_vars

\* An ended session on which endSession was invoked again and whose cycle,
\* completing late, has stored the item it dequeued.
C14_Witness ==
    \E s \in DOMAIN sess :
        /\ ~sess[s].isActive
        /\ effects[s].invoked = 2
        /\ media[s].lastSentMediaInfo # Null

\* ---------------------------------------------------------------- C15
\* The creation c has its registry lookup answered with an owner.
C15_OwnerFound(c) ==
    /\ calls[c].op = "create" /\ calls[c].pc = "replied"
    /\ calls[c].step = "get"
    /\ calls[c].res \in {ShardToString(sh) : sh \in Shards}

\* C15: a createSession whose registry lookup answers with an owner, this
\* shard or another, returns the refusal (null) in its next step, and that
\* step leaves the registry, every shard's local map, the user's quota and
\* the pending commands as they were and builds no Session; a creation
\* refused at its lookup never has a Session.
C15_RefusalChangesNothing ==
    /\ [](\A c \in Calls :
            (calls[c].op = "create" /\ calls[c].step = "get")
                => c \notin DOMAIN sess)
    /\ [][\A c \in Calls :
            (C15_OwnerFound(c) /\ calls'[c] # calls[c])
                => /\ calls'[c].pc = "done"
                   /\ calls'[c].ret = "null"
                   /\ UNCHANGED <<registry, localActiveSessions, userData,
                                  sess, redisQ, userQ>>]_vars

\* A creation was refused at its lookup, on the owner's shard (same) or on
\* another, while the owner's Session is active and registered.
C15_Refused(same) ==
    \E c \in Calls, s \in DOMAIN sess :
        /\ calls[c].op = "create" /\ calls[c].step = "get"
        /\ calls[c].ret = "null"
        /\ (calls[c].res = ShardToString(calls[c].shard)) = same
        /\ sess[s].isActive /\ sess[s].userId = calls[c].user
        /\ registry[calls[c].user] = ShardToString(sess[s].shard)
        /\ localActiveSessions[sess[s].shard] = MapSet(EmptyMap, sess[s].userId, s)
C15_Witness == C15_Refused(FALSE)
C15_WitnessSame == C15_Refused(TRUE)

\* ---------------------------------------------------------------- C16
\* The creation c has had its registry write rejected.
C16_WriteFailed(c) ==
    /\ calls[c].op = "create" /\ calls[c].step = "set"
    /\ calls[c].res = "ERR"

\* C16: a createSession whose registry write fails returns the refusal
\* (null), and when it has returned the Session it had built is Ended, by
\* its end routine, and the local map of its shard holds neither that
\* Session nor any entry of the user; the Session is never active again.
C16_FailedWriteRolledBack ==
    /\ [](\A c \in Calls :
            (C16_WriteFailed(c) /\ calls[c].pc = "done")
                => /\ calls[c].ret = "null"
                   /\ c \in DOMAIN sess
                   /\ ~sess[c].isActive
                   /\ effects[c].invoked >= 1
                   /\ \A sh \in Shards :
                        \A u \in DOMAIN localActiveSessions[sh] :
                            localActiveSessions[sh][u] # c)
    /\ [][\A c \in Calls :
            (C16_WriteFailed(c) /\ calls[c].pc = "replied")
                => /\ calls'[c].pc \in {"replied", "done"}
                   /\ calls'[c].pc = "done" =>
                          ~MapHas(localActiveSessions'[calls[c].shard],
                                  calls[c].user)]_vars

\* A creation has returned the refusal after its registry write failed.
C16_Witness ==
    \E c \in Calls :
        /\ C16_WriteFailed(c) /\ calls[c].pc = "done"
        /\ calls[c].ret = "null"
        /\ sess[c].endReason = "Redis Registration Failed"

\* ---------------------------------------------------------------- C17
\* The end request c, made on a shard the registry does not name, has the
\* answer of the owner: no local session ("false") or a failed channel.
C17_NotFoundOrFailed(c) ==
    /\ calls[c].op = "end" /\ calls[c].pc = "replied"
    /\ calls[c].step = "ipc"
    /\ calls[c].res \in {"false", "ERR"}

\* The store executes the DEL that the end request c awaits.
C17_RemovalExecuted(c) ==
    \E sh \in Shards :
        /\ redisQ[sh] # <<>>
        /\ Head(redisQ[sh]) = Cmd("del", calls[c].user, Null, "call", c)
        /\ redisQ'[sh] = Tail(redisQ[sh])
        /\ calls'[c].res = "OK"

\* C17: an endSession(u) on a shard other than the registered owner whose
\* owner reports no local session, or whose request channel fails, sends
\* the removal of u's registry entry in its next step and waits for it;
\* the entry is gone when the store has executed the removal; the call
\* then returns false, and it returns only once the removal was answered.
C17_RemoteMissCleared ==
    /\ [](\A c \in Calls :
            (calls[c].op = "end" /\ calls[c].step = "del"
                /\ calls[c].pc = "done")
              => calls[c].ret = "false" /\ calls[c].res \in {"OK", "ERR"})
    /\ [][\A c \in Calls :
            /\ (C17_NotFoundOrFailed(c) /\ calls'[c] # calls[c])
                 => /\ calls'[c].pc = "waiting" /\ calls'[c].step = "del"
                    /\ calls'[c].ret = ""
                    /\ redisQ' = [redisQ EXCEPT ![calls[c].shard] = Append(@,
                           Cmd("del", calls[c].user, Null, "call", c))]
            /\ (calls[c].op = "end" /\ C17_RemovalExecuted(c))
                 => registry'[calls[c].user] = Null
            /\ (calls[c].op = "end" /\ calls[c].step = "del"
                  /\ calls[c].pc = "replied" /\ calls'[c] # calls[c])
                 => calls'[c].pc = "done" /\ calls'[c].ret = "false"]_vars

\* An end request made on shard A, answered 'not found' or by a channel
\* error by the owner B, has returned false with the entry removed.
C17_Witness ==
    \E c \in Calls :
        /\ calls[c].op = "end" /\ calls[c].step = "del"
        /\ calls[c].pc = "done" /\ calls[c].ret = "false"
        /\ calls[c].res = "OK"
        /\ registry[calls[c].user] = Null
        /\ sess # EmptyMap
        /\ \A s \in DOMAIN sess : sess[s].shard # calls[c].shard

\* ---------------------------------------------------------------- C18
\* The end request c has learnt that the registry names its own shard,
\* whose local map holds no session of the user.
C18_Discrepancy(c) ==
    /\ calls[c].op = "end" /\ calls[c].pc = "replied"
    /\ calls[c].step = "get"
    /\ calls[c].res = ShardToString(calls[c].shard)
    /\ ~MapHas(localActiveSessions[calls[c].shard], calls[c].user)

\* C18: an endSession(u) on the shard the registry names as owner, whose
\* local map holds no session of u, raises no error: in its next step it
\* sends the removal of the stale registry entry and waits for it, the
\* entry is gone when the store has executed the removal, and the call
\* returns false.
C18_StaleEntryHealed ==
    /\ [](\A c \in Calls :
            (calls[c].op = "end" /\ calls[c].step = "del")
                => calls[c].ret \in {"", "false"})
    /\ [][\A c \in Calls :
            /\ (C18_Discrepancy(c) /\ calls'[c] # calls[c])
                 => /\ calls'[c].pc = "waiting" /\ calls'[c].step = "del"
                    /\ Len(redisQ'[calls[c].shard]) =
                           Len(redisQ[calls[c].shard]) + 1
                    /\ redisQ'[calls[c].shard][Len(redisQ'[calls[c].shard])]
                           = Cmd("del", calls[c].user, Null, "call", c)
                    /\ UNCHANGED <<sess, localActiveSessions>>
            /\ (calls[c].op = "end" /\ calls[c].step = "del"
                  /\ calls[c].pc = "waiting" /\ calls'[c].res = "OK")
                 => registry'[calls[c].user] = Null
            /\ (calls[c].op = "end" /\ calls[c].step = "del"
                  /\ calls'[c].pc = "done")
                 => calls'[c].ret = "false"]_vars

\* An end request on the shard of an ended Session found the entry stale
\* and has returned false with the entry removed.
C18_Witness ==
    \E c \in Calls, s \in DOMAIN sess :
        /\ calls[c].op = "end" /\ calls[c].step = "del"
        /\ calls[c].pc = "done" /\ calls[c].ret = "false"
        /\ calls[c].res = "OK"
        /\ sess[s].shard = calls[c].shard /\ sess[s].userId = calls[c].user
        /\ ~sess[s].isActive
        /\ registry[calls[c].user] = Null

\* ---------------------------------------------------------------- C19
\* The function of the end request c, made on shard A, is about to run on
\* the owner B # A, whose local map holds the active Session s of the user.
C19_RemoteHolds(c, s) ==
    /\ calls[c].op = "end" /\ calls[c].pc = "ipc"
    /\ s \in DOMAIN sess /\ sess[s].isActive
    /\ sess[s].shard # calls[c].shard
    /\ calls[c].res = ShardToString(sess[s].shard)
    /\ MapHas(localActiveSessions[sess[s].shard], calls[c].user)
    /\ localActiveSessions[sess[s].shard][calls[c].user] = s

\* B has acknowledged the end request c, which has not returned yet.
C19_Acknowledged(c) ==
    /\ calls[c].op = "end" /\ calls[c].pc = "replied"
    /\ calls[c].step = "ipc" /\ calls[c].res = "true"

\* The removal that the end routine of Session s sent is still pending.
C19_RemovalPending(s) ==
    /\ s \in DOMAIN sess
    /\ sess[s].endReason = "Remote End Request"
    /\ \E i \in DOMAIN redisQ[sess[s].shard] :
          redisQ[sess[s].shard][i] = Cmd("del", sess[s].userId, Null, "none", 0)

C20_ShutdownReached(s) ==
    /\ s \in DOMAIN sess
    /\ sess[s].endReason # "Shard Shutdown"
    /\ sess'[s].endReason = "Shard Shutdown"

\* C20: when endAllLocalSessions has returned on a shard, every Session
\* that was in the shard's local map when it was called is Ended, through
\* its end routine, and the local map is empty, whatever the number of
\* entries and the order in which the loop meets them.
C20_ShutdownEndsAll ==
    [][\A s \in Calls :
          C20_ShutdownReached(s) =>
              LET sh == sess[s].shard IN
              /\ \A u \in DOMAIN localActiveSessions[sh] :
                    /\ ~sess'[localActiveSessions[sh][u]].isActive
                    /\ effects'[localActiveSessions[sh][u]].invoked >= 1
              /\ localActiveSessions'[sh] = EmptyMap]_vars

\* A shutdown has ended every Session of a local map of more than one entry.
C20_Witness ==
    /\ Cardinality({s \in DOMAIN sess :
                        sess[s].endReason = "Shard Shutdown"}) >= 2
    /\ \A sh \in Shards : localActiveSessions[sh] = EmptyMap
    /\ \A s \in DOMAIN sess : ~sess[s].isActive

\* ---------------------------------------------------------------- C21
\* C21: when a cycle is over, its media item was delivered (sent, or
\* edited into the media message) if and only if its commentary was
\* delivered in that cycle.
C21_PairedDelivery ==
    \A s \in DOMAIN cyc :
        cyc[s].pc = "idle" =>
            (cyc[s].mediaSentOrEdited <=> cyc[s].commentaryDelivered)

\* ---------------------------------------------------------------- C22
\* The step runs the end routine of the active Session s.
C22_Ends(s) ==
    /\ s \in DOMAIN sess /\ sess[s].isActive
    /\ s \in DOMAIN sess' /\ ~sess'[s].isActive

\* Session t is in a local map before the step and not after, or under
\* another key.
C22_LosesMapEntry(t) ==
    \E sh \in Shards :
        \E u \in DOMAIN localActiveSessions[sh] :
            /\ localActiveSessions[sh][u] = t
            /\ ~(MapHas(localActiveSessions'[sh], u)
                   /\ localActiveSessions'[sh][u] = t)

\* The step executes the removal sent by the end routine of some Session
\* and takes away the registry entry that names the shard of the active
\* Session t.
C22_LosesRegistryEntry(t) ==
    /\ sess[t].isActive
    /\ registry[sess[t].userId] = ShardToString(sess[t].shard)
    /\ registry'[sess[t].userId] # registry[sess[t].userId]
    /\ \E sh \in Shards :
          /\ redisQ[sh] # <<>>
          /\ Head(redisQ[sh]) = Cmd("del", sess[t].userId, Null, "none", 0)
          /\ redisQ'[sh] = Tail(redisQ[sh])

\* C22: the end routine of a Session S changes nothing of any other
\* Session T: the step that ends S leaves T's active flag, timers, queues,
\* pool, posted set and local-map entry as they were, and the removal that
\* S's end routine sent does not take away the registry entry of an active
\* T when the store executes it.
C22_EndLeavesOthers ==
    [][\A t \in DOMAIN sess :
          /\ (\E s \in DOMAIN sess : s # t /\ C22_Ends(s))
                => /\ sess'[t] = sess[t]
                   /\ media'[t] = media[t]
                   /\ reddit'[t] = reddit[t]
                   /\ cyc'[t] = cyc[t]
                   /\ ~C22_LosesMapEntry(t)
          /\ ~C22_LosesRegistryEntry(t)]_vars

\* ---------------------------------------------------------------- C23
\* The step is the first press of the trigger button on Session s.
C23_Pressed(s) ==
    /\ s \in DOMAIN sess /\ sess[s].isActive
    /\ ~effects[s].triggerPressed /\ effects'[s].triggerPressed

\* C23: recordTrigger on an active session adds every tag of the item
\* last delivered in the session to the trigger-tag set and removes none;
\* with no item delivered yet it leaves the set as it is.
C23_TriggerAddsTags ==
    [][\A s \in DOMAIN sess :
          C23_Pressed(s) =>
              media'[s].triggeredTags =
                  IF media[s].lastDelivered = Null
                  THEN media[s].triggeredTags
                  ELSE media[s].triggeredTags
                           \cup PostTags(media[s].lastDelivered).tags]_vars

\* ---------------------------------------------------------------------
\* C24: when the session of a premium user ends, the tags passed to the
\* regeneration of the profile summary are the tags that recordTrigger
\* had accumulated when the end routine was entered.
C24_SummaryGetsTags ==
    \A s \in DOMAIN sess :
        effects[s].summaryCalls > 0 =>
            effects[s].summaryTags = effects[s].tagsAtEnd

\* ---------------------------------------------------------------- C25
\* Session s was ended by the shutdown of its shard, whose process has
\* exited.
C25_Exited(s) ==
    /\ sess[s].endReason = "Shard Shutdown"
    /\ calls[s].ret = "exited"

\* The deduction of Session s has been written to the store.
C25_Deducted(s) ==
    \E i \in DOMAIN deductions :
        /\ deductions[i].sid = s
        /\ userData[sess[s].userId].remainingMinutes =
               Max(0, DEFAULT_STARTING_TIME - deductions[i].n)

\* C25: once the process of a shard has exited on a signal, no registry
\* entry of a Session that the shutdown ended names the shard, and the
\* minutes of each such Session have been deducted in the store.
C25_ExitLeavesNothing ==
    \A s \in DOMAIN sess :
        C25_Exited(s) =>
            /\ registry[sess[s].userId] # ShardToString(sess[s].shard)
            /\ C25_Deducted(s)

\* ---------------------------------------------------------------- C26
\* The quota check of the cycle of Session s finds the quota exhausted.
C26_Exhausted(s) ==
    /\ cyc[s].pc = "time" /\ cyc[s].replied /\ OutOfTime(cyc[s])
    /\ cyc'[s] # cyc[s]

\* The cycle of Session s goes on after the attempt to deliver the notice.
C26_AfterNotice(s) == cyc[s].pc = "notice" /\ cyc'[s] # cyc[s]

\* C26: a cycle whose quota check finds the minutes elapsed, rounded up,
\* to be at least the remaining ones only attempts the closing notice and
\* then ends the session, whether or not the notice was delivered: the
\* session is Ended, the cycle has refilled and dequeued nothing and has
\* delivered nothing, no timer that leads to a cycle is pending, and no
\* cycle starts afterwards.
C26_QuotaExhaustedEnds ==
    [][\A s \in DOMAIN sess :
          /\ C26_Exhausted(s) =>
                /\ cyc'[s].pc = "notice"
                /\ media'[s] = media[s] /\ sess'[s] = sess[s]
          /\ C26_AfterNotice(s) =>
                /\ cyc'[s].pc = "idle"
                /\ cyc'[s].mediaToSend = Null
                /\ ~cyc'[s].commentaryDelivered
                /\ ~cyc'[s].mediaSentOrEdited
                /\ ~sess'[s].isActive
                /\ effects'[s].invoked >= 1
                /\ sess[s].isActive => sess'[s].endReason = "Ran out of time"
                /\ sess'[s].actionLoopTimerId = 0
                /\ sess'[s].firstCycleTimer = 0 /\ sess'[s].backoffTimer = 0
                /\ media'[s].mediaBatchQueue = <<>>
                /\ media'[s].commentaryQueue = <<>>
                /\ media'[s].postedMediaUrls = {}
                /\ media'[s].lastDelivered = Null
          /\ (sess[s].endReason = "Ran out of time" /\ cyc[s].pc = "idle")
                => cyc'[s].pc = "idle"]_vars

\* The quota check has ended a session after a cycle of it had sent a
\* message of its own.
C26_Witness ==
    \E s \in DOMAIN sess :
        /\ sess[s].endReason = "Ran out of time"
        /\ ~sess[s].isActive
        /\ cyc[s].pc = "idle"
        /\ media[s].lastMessageId >= 2

\* ---------------------------------------------------------------- C27
\* The step chooses the item of a cycle of Session s.
C27_Chosen(s) == cyc[s].mediaToSend = Null /\ cyc'[s].mediaToSend # Null

\* The step ends a cycle of Session s whose media was sent or edited in.
C27_Delivered(s) ==
    /\ cyc[s].pc \in {"mEdit", "mSend"}
    /\ cyc'[s].pc = "idle" /\ cyc'[s].mediaSentOrEdited

\* No locator twice in q and none of the set posted.
C27_Fresh(q, posted) ==
    /\ \A i \in DOMAIN q : q[i] \notin posted
    /\ \A i, j \in DOMAIN q : i # j => q[i] # q[j]

\* C27: no locator is delivered twice in a session.  An item is not in
\* the posted set when it is chosen; a delivered locator was not delivered
\* before in the session and is in the posted set afterwards; the media
\* queue holds no posted locator and no locator twice, and it only loses
\* its head or is filled when it is empty, so that no waiting item is
\* fetched again.
C27_NoRedelivery ==
    [][\A s \in DOMAIN sess :
          /\ C27_Chosen(s) =>
                cyc'[s].mediaToSend \notin media[s].postedMediaUrls
          /\ C27_Delivered(s) =>
                /\ cyc[s].mediaToSend \notin media[s].deliveredUrls
                /\ cyc[s].mediaToSend \in media'[s].postedMediaUrls
          /\ C27_Fresh(media'[s].mediaBatchQueue, media'[s].postedMediaUrls)
          /\ media'[s].mediaBatchQueue # media[s].mediaBatchQueue =>
                \/ media[s].mediaBatchQueue = <<>>
                \/ media'[s].mediaBatchQueue = <<>>
                \/ media'[s].mediaBatchQueue = Tail(media[s].mediaBatchQueue)
      ]_vars

\* Two locators have been delivered and a refill has queued two more.
C27_Witness ==
    \E s \in DOMAIN sess :
        /\ Cardinality(media[s].deliveredUrls) >= 2
        /\ media[s].mediaBatchQueue # <<>>

\* ---------------------------------------------------------------- C28
\* The step sends a new message of Session s and the platform hands out
\* its id.
C28_NewMessage(s) == media'[s].lastMessageId # media[s].lastMessageId

\* C28: deliveries update in place.  When the edit of the remembered
\* commentary or media message succeeds, no new message is sent and the
\* remembered id stays; a cycle sends a new message, and remembers its
\* id, only when no id is remembered: the send is awaited only with no id
\* remembered, the edit only with one.
C28_UpdateInPlace ==
    [][\A s \in DOMAIN sess :
          /\ (cyc[s].pc = "cEdit" /\ cyc'[s].pc # "cEdit"
                 /\ cyc'[s].commentaryDelivered) =>
                /\ ~C28_NewMessage(s)
                /\ media'[s].currentCommentaryMessageId =
                       media[s].currentCommentaryMessageId
                /\ cyc'[s].pc # "cSend"
          /\ (cyc[s].pc = "mEdit" /\ cyc'[s].pc = "idle"
                 /\ cyc'[s].mediaSentOrEdited) =>
                /\ ~C28_NewMessage(s)
                /\ media'[s].currentMediaMessageId =
                       media[s].currentMediaMessageId
          /\ (C28_NewMessage(s) /\ cyc[s].pc # "idle") =>
                \/ /\ cyc[s].pc = "cSend"
                   /\ media[s].currentCommentaryMessageId = 0
                   /\ media'[s].currentCommentaryMessageId =
                          media'[s].lastMessageId
                \/ /\ cyc[s].pc = "mSend"
                   /\ media[s].currentMediaMessageId = 0
                   /\ media'[s].currentMediaMessageId =
                          media'[s].lastMessageId
          /\ cyc'[s].pc = "cSend" => media'[s].currentCommentaryMessageId = 0
          /\ cyc'[s].pc = "mSend" => media'[s].currentMediaMessageId = 0
          /\ (cyc'[s].pc = "cEdit" /\ sess'[s].isActive) =>
                media'[s].currentCommentaryMessageId # 0
          /\ (cyc'[s].pc = "mEdit" /\ sess'[s].isActive) =>
                media'[s].currentMediaMessageId # 0
      ]_vars

\* Two items have been delivered through one media message.
C28_Witness ==
    \E s \in DOMAIN sess :
        /\ Cardinality(media[s].deliveredUrls) >= 2
        /\ media[s].currentMediaMessageId # 0
        /\ media[s].lastMessageId <= 2

\* ---------------------------------------------------------------- C29
\* The step handles a send or an edit of the cycle of Session s that
\* raised (or an edit that found no message).
C29_DeliveryFailed(s) ==
    \/ cyc[s].pc = "cEdit" /\ cyc'[s].pc # "cEdit"
           /\ ~cyc'[s].commentaryDelivered
    \/ cyc[s].pc = "cSend" /\ cyc'[s].pc # "cSend"
           /\ ~cyc'[s].commentaryDelivered
    \/ cyc[s].pc = "mEdit" /\ cyc'[s].pc # "mEdit"
           /\ ~cyc'[s].mediaSentOrEdited
    \/ cyc[s].pc = "mSend" /\ cyc'[s].pc # "mSend"
           /\ ~cyc'[s].mediaSentOrEdited

\* The step ends a cycle of Session s after its delivery steps.
C29_CycleEnds(s) ==
    /\ cyc[s].pc \in {"cEdit", "cSend", "mEdit", "mSend"}
    /\ cyc'[s].pc = "idle"

C30_Ends(s) ==
    /\ sess[s].isActive
    /\ effects'[s].invoked # effects[s].invoked

\* The removal of the registry entry of Session s is the newest command
\* of its shard's connection.
C30_RemovalRequested(s) ==
    LET q == redisQ'[sess[s].shard] IN
    /\ effects'[s].delReq = effects[s].delReq + 1
    /\ q # <<>>
    /\ q[Len(q)].cmd = "del" /\ q[Len(q)].user = sess[s].userId

\* C30: the step that invokes the end routine on an active session makes
\* it inactive, leaves no timer of it pending and requests the removal of
\* its registry entry, while the reads of the quota and of the premium
\* status are only issued: nothing of the user's record is read or
\* written in that step, whatever becomes of those commands.
C30_EndDoesNotWait ==
    [][\A s \in DOMAIN sess :
          C30_Ends(s) =>
              /\ ~sess'[s].isActive
              /\ sess'[s].actionLoopTimerId = 0
              /\ sess'[s].sessionEndTimerId = 0
              /\ sess'[s].firstCycleTimer = 0
              /\ sess'[s].backoffTimer = 0
              /\ C30_RemovalRequested(s)
              /\ userData' = userData
              /\ Len(userQ'[sess[s].shard]) = Len(userQ[sess[s].shard]) + 2
      ]_vars

\* ---------------------------------------------------------------- C31
\* C31: a call of fetchMediaBatch requests at most maxPageAttempts pages
\* and no page index twice; what it returns is a list (whatever the pages
\* answered: errors, nothing, posts) of at most batchSize locators,
\* pairwise distinct and none of the posted set, one of the batches the
\* cycle is taken to receive; and the list is empty only when no
\* requested page held a qualifying locator outside the posted set.
C31_BatchFetch ==
    /\ batchCall.pc # "none" =>
          /\ batchCall.currentAttempts <= batchCall.maxPageAttempts
          /\ Cardinality(batchCall.attemptedPages) <=
                 batchCall.maxPageAttempts
          /\ ~batchCall.requestedTwice
    /\ batchCall.pc = "done" =>
          /\ batchCall.foundMediaBatch \in
                 FetchMediaBatch(batchCall.postedMediaUrls,
                                 batchCall.batchSize)
          /\ batchCall.foundMediaBatch = <<>> => ~batchCall.yielded

\* A call has returned a full batch of two after a page that failed.
C31_Witness ==
    /\ batchCall.pc = "done"
    /\ Len(batchCall.foundMediaBatch) = 2
    /\ batchCall.batchSize = 2
    /\ batchCall.postedMediaUrls # {}
    /\ batchCall.currentAttempts = 3

\* C32: the selection from the pool ends: each loop draws at most
\* maxAttempts times, at most one synchronous fetch is made, of a subreddit
\* that was neither fetching nor exhausted, and the candidate is never a
\* posted locator; the selection may end without a candidate.
C32_Bounded ==
    selectCall.pc # "none" =>
        /\ selectCall.attempts <= selectCall.maxAttempts
        /\ selectCall.picks <= 2 * selectCall.maxAttempts
        /\ Len(selectCall.syncFetches) <= 1
        /\ \A i \in DOMAIN selectCall.syncFetches :
               /\ ~selectCall.syncFetches[i].isFetching
               /\ ~selectCall.syncFetches[i].allFetched
        /\ selectCall.candidate # Null =>
               selectCall.candidate \notin selectCall.postedMediaUrls
C32_SelectionTerminates == [](C32_Bounded) /\ <>(selectCall.pc = "done")
C32_Witness ==
    /\ selectCall.pc = "done"
    /\ selectCall.candidate = Null
    /\ Len(selectCall.syncFetches) = 1
    /\ selectCall.picks = 2 * selectCall.maxAttempts
    /\ selectCall.isActive

\* C33: a page request that fails or comes back empty, a batch fetch that
\* finds nothing and a commentary call that fails do not end the session:
\* the step that handles the failure leaves isActive as it was, an active
\* session's failing subreddit is marked exhausted, a batch whose
\* commentary failed is discarded, and a cycle that ends for lack of an
\* item or a commentary leaves a cycle timer pending.
C33_PageFailed(s, sub) ==
    /\ Len(reddit'[s].replies[sub]) = Len(reddit[s].replies[sub]) + 1
    /\ LET a == reddit'[s].replies[sub][Len(reddit'[s].replies[sub])] IN
           ~a.ok \/ ~a.hasPosts
C33_CycleSkipped(s) ==
    /\ cyc[s].pc \in {"fetch", "llm", "llm1", "syncFetch", "time"}
    /\ cyc'[s].pc = "idle"
C33_CommentaryFailed(s) ==
    /\ cyc[s].pc = "llm" /\ cyc'[s].pc = "idle"
    /\ ~CommentaryMatches(cyc[s].llm, media[s].mediaBatchQueue)
C33_TimerPending(ss, s) ==
    \/ ss[s].actionLoopTimerId # 0
    \/ ss[s].backoffTimer # 0
    \/ ss[s].firstCycleTimer # 0
C33_FailureKeepsSession ==
    [][\A s \in DOMAIN sess :
        /\ \A sub \in DOMAIN reddit[s].replies :
               C33_PageFailed(s, sub) =>
                   /\ sess'[s].isActive = sess[s].isActive
                   /\ sess[s].isActive =>
                          /\ reddit'[s].state[sub].allFetched
                          /\ ~reddit'[s].state[sub].isFetching
        /\ C33_CycleSkipped(s) =>
               /\ sess'[s].isActive = sess[s].isActive
               /\ sess[s].isActive => C33_TimerPending(sess', s)
        /\ C33_CommentaryFailed(s) =>
               /\ media'[s].mediaBatchQueue = <<>>
               /\ media'[s].commentaryQueue = <<>>]_vars
C33_Witness ==
    \E s \in DOMAIN sess :
        /\ sess[s].isActive
        /\ sess[s].characterType = "real"
        /\ \A sub \in DOMAIN reddit[s].state :
               /\ reddit[s].state[sub].allFetched
               /\ reddit[s].replies[sub] # <<>>
               /\ ~reddit[s].replies[sub][Len(reddit[s].replies[sub])].ok
        /\ reddit[s].state # EmptyMap
        /\ reddit[s].pool = {}
        /\ cyc[s].pc = "idle"
        /\ sess[s].actionLoopTimerId # 0
        /\ sess[s].firstCycleTimer = 0

\* C34 as stated: a start whose existence check or owner lookup raised
\* builds no Session, adds nothing to the local map and writes no
\* registry entry.
C34_NothingCreated(c) ==
    /\ c \notin DOMAIN sess
    /\ \A sh \in Shards, u \in Users :
           MapHas(localActiveSessions[sh], u) =>
               localActiveSessions[sh][u] # c
    /\ \A sh \in Shards : \A i \in DOMAIN redisQ[sh] :
           ~(redisQ[sh][i].cmd = "set" /\ redisQ[sh][i].id = c)
C34_LookupRaised(c) ==
    /\ calls[c].op = "create" /\ calls[c].pc = "replied"
    /\ calls[c].step = "get" /\ calls[c].res = "ERR"
C35_EndedOrRolledBack(s) ==
    /\ s \in DOMAIN sess' /\ ~sess'[s].isActive
    /\ (s \in DOMAIN sess => sess[s].isActive)
C35_MapEntryTaken(t) ==
    /\ \E s \in DOMAIN sess' : s # t /\ C35_EndedOrRolledBack(s)
    /\ MapHas(localActiveSessions[sess[t].shard], sess[t].userId)
    /\ localActiveSessions[sess[t].shard][sess[t].userId] = t
    /\ ~MapHas(localActiveSessions'[sess[t].shard], sess[t].userId)
C35_RegistryEntryTaken(t) ==
    /\ registry[sess[t].userId] = ShardToString(sess[t].shard)
    /\ registry'[sess[t].userId] = Null
    /\ \A s \in DOMAIN sess :
           (s # t /\ sess[s].isActive /\ sess[s].userId = sess[t].userId)
           => sess[s].shard # sess[t].shard
    /\ \E sh \in Shards :
          /\ redisQ[sh] # <<>>
          /\ Head(redisQ[sh]).cmd = "del"
          /\ Head(redisQ[sh]).to = "none"
          /\ redisQ'[sh] = Tail(redisQ[sh])
C35_RemovesOnlyOwn ==
    [][\A t \in DOMAIN sess :
          (sess[t].isActive /\ sess'[t].isActive) =>
              /\ ~C35_MapEntryTaken(t)
              /\ ~C35_RegistryEntryTaken(t)]_vars

\* C37: a createSession that was refused, because an owner was present or
\* because the registry write failed and was rolled back, deducts nothing:
\* no updateUserTime with a positive number of minutes is issued for it.
C37_Refused(c) ==
    calls[c].op = "create" /\ calls[c].pc = "done" /\ calls[c].ret = "null"
C37_RefusalDeductsNothing ==
    \A c \in Calls :
        C37_Refused(c) =>
            \A i \in DOMAIN deductions :
                deductions[i].sid = c => deductions[i].n = 0

\* C36: no quota deduction is lost: once an end routine's updateUserTime
\* has written and nothing more is pending on the user's record, the
\* record holds the quota less the minutes deducted.
C36_Settled(u) ==
    /\ \A sh \in Shards : \A i \in DOMAIN userQ[sh] : userQ[sh][i].user # u
    /\ \A c \in Commands :
           commands[c].user = u => commands[c].pc \in {"idle", "done"}
    /\ \A i \in DOMAIN deductions :
           deductions[i].user = u => deductions[i].pc = "done"
C36_NoDeductionLost ==
    \A i \in DOMAIN deductions :
        C36_Settled(deductions[i].user) =>
            userData[deductions[i].user].remainingMinutes
                <= Max(0, DEFAULT_STARTING_TIME - deductions[i].n)

\* C40: a premium key is used once: no two commands of different users
\* are granted premium for the same key.
C40_KeySingleUse ==
    \A c, d \in Commands :
        (/\ commands[c].outcome = "granted"
         /\ commands[d].outcome = "granted"
         /\ commands[c].key = commands[d].key)
        => commands[c].user = commands[d].user

\* C38: an ended Session keeps what its end routine cleared: whatever a
\* cycle or a page fetch in flight goes on to do, the media queue, the
\* commentary queue, the pool and the pagination state stay empty and the
\* last-delivered reference stays null.
C38_EndedStaysCleared ==
    \A s \in DOMAIN sess :
        ~sess[s].isActive =>
            /\ media[s].mediaBatchQueue = <<>>
            /\ media[s].commentaryQueue = <<>>
            /\ media[s].lastSentMediaInfo = Null
            /\ reddit[s].pool = {}
            /\ reddit[s].state = EmptyMap

\* C39: with timers that fire, a clock that advances and calls that
\* answer, every session ends, whatever fails on the way.
C39_EventuallyEnds == <>(\A s \in DOMAIN sess : ~sess[s].isActive)
C39_Witness ==
    \E s \in DOMAIN sess :
        /\ ~sess[s].isActive
        /\ sess[s].endReason = "Ran out of time"
        /\ media[s].deliveredUrls = {}
        /\ sess[s].durationMinutes = 0
        /\ now >= TickMs
====
